---- MODULE Spec2Model ----
(***************************************************************************)
(* A model of collect-files: the ignore rules (src/src/ignore_handler.js), *)
(* the directory walker and the SYSTEM.txt search (src/src/file_scanner.js)*)
(* the per-file processing (src/src/file_processor.js) and the run that    *)
(* assembles the document (src/src/main.js).                               *)
(*                                                                         *)
(* A string is a sequence of character codes (ASCII), so that ordinal      *)
(* comparison, case folding, trimming and separator replacement are        *)
(* computed as the code computes them.                                     *)
(***************************************************************************)
EXTENDS Integers, Sequences, FiniteSets, TLC

VARIABLES
  sep,          \* the platform's path separator (path.sep): "/" or "\"
  fs,           \* the directory tree under the scan root: a set of nodes
  content,      \* the text of every regular file of the tree
  unreadable,   \* the nodes whose readdir / readFile fails
  config,       \* the configuration object (main.js: config)
  pc,           \* where the run (or the call under check) stands
  igArgs,       \* shouldIgnore under check: its arguments
  igResult,     \* shouldIgnore under check: its result
  anchorPath,   \* pathToAnchor under check: its argument
  anchor,       \* pathToAnchor under check: its result
  scanStack,    \* scanDirectoryRecursive: the active calls, innermost last
  filesList,    \* scanDirectoryRecursive: the accumulator
  readdirCalls, \* the directories readdir was called on during the main walk
  filesToProcess, \* scanProjectFiles: the returned list
  foundSystemFiles,   \* findSystemFile: the candidates, as the sort leaves them
  systemFileInfo,     \* main: what findSystemFile returned
  systemFilePreamble, \* main: the preamble text
  tasksPending,       \* main: the processFileContent calls not yet settled
  processedFileResults, \* main: what Promise.all collects, by index
  outOfOrder,         \* a call settled while a call started before it was pending
  finalMarkdown,      \* main: the assembled document
  readCalls,          \* the reads of files: who read, and which file
  writeCalls,         \* the number of calls of writeFile
  outputFile,         \* what writeFile has put into the output file
  successReported,    \* the "Successfully wrote ..." line was logged
  exitCode            \* "running", then "exit0" (main returned) or "exit1"

\* the variables of the walk and of the shouldIgnore call under check
scanVars == <<pc, igArgs, igResult, scanStack, filesList, readdirCalls, filesToProcess>>
\* the variables of the rest of the run
runVars == <<foundSystemFiles, systemFileInfo, systemFilePreamble, tasksPending, processedFileResults,
             outOfOrder, finalMarkdown, readCalls, writeCalls, outputFile,
             successReported, exitCode>>
\* the variables of the pathToAnchor call under check
anchorVars == <<anchorPath, anchor>>

vars == <<sep, fs, content, unreadable, config, scanVars, runVars, anchorVars>>

----------------------------------------------------------------------------
(* Characters and strings *)

CH_DOT == 46
CH_SLASH == 47
CH_BACKSLASH == 92

IsUpper(c) == c >= 65 /\ c <= 90
IsLower(c) == c >= 97 /\ c <= 122
IsDigit(c) == c >= 48 /\ c <= 57
\* String.prototype.trim removes white space and line terminators
IsWhiteSpace(c) == c \in {9, 10, 11, 12, 13, 32}

LowerChar(c) == IF IsUpper(c) THEN c + 32 ELSE c

\* String.prototype.toLowerCase
toLowerCase(s) == [i \in 1..Len(s) |-> LowerChar(s[i])]

\* s.replace(/\\/g, '/')
ReplaceBackslashes(s) ==
  [i \in 1..Len(s) |-> IF s[i] = CH_BACKSLASH THEN CH_SLASH ELSE s[i]]

\* s.substring(n) with a 0-based start
substring(s, n) == IF n >= Len(s) THEN <<>> ELSE SubSeq(s, n + 1, Len(s))

\* String.prototype.trim
trim(s) ==
  LET keep == {i \in 1..Len(s) : ~IsWhiteSpace(s[i])}
  IN IF keep = {} THEN <<>>
     ELSE LET lo == CHOOSE i \in keep : \A j \in keep : i <= j
              hi == CHOOSE i \in keep : \A j \in keep : j <= i
          IN SubSeq(s, lo, hi)

\* Array.prototype.includes on an array of strings
Includes(arr, x) == \E i \in 1..Len(arr) : arr[i] = x

\* the last index of character c in s, 0 when there is none
LastIndexOf(s, c) ==
  LET at == {i \in 1..Len(s) : s[i] = c}
  IN IF at = {} THEN 0 ELSE CHOOSE i \in at : \A j \in at : j <= i

\* path.basename of a slash-separated path: the last segment, trailing
\* slashes dropped
RECURSIVE StripTrailingSlashes(_)
StripTrailingSlashes(p) ==
  IF Len(p) > 1 /\ p[Len(p)] = CH_SLASH
  THEN StripTrailingSlashes(SubSeq(p, 1, Len(p) - 1))
  ELSE p

basename(p) ==
  LET q == StripTrailingSlashes(p)
  IN IF q = <<CH_SLASH>> THEN <<>> ELSE substring(q, LastIndexOf(q, CH_SLASH))

\* path.extname: from the last dot of the base name to its end; empty when
\* there is no dot, when the only dot starts the name, and for ".."
extname(p) ==
  LET b == basename(p)
      d == LastIndexOf(b, CH_DOT)
  IN IF d = 0 \/ d = 1 \/ b = <<CH_DOT, CH_DOT>> THEN <<>>
     ELSE SubSeq(b, d, Len(b))

\* array.join(sepChar) of a sequence of names
RECURSIVE Join(_, _)
Join(names, s) ==
  IF Len(names) = 0 THEN <<>>
  ELSE IF Len(names) = 1 THEN names[1]
  ELSE names[1] \o <<s>> \o Join(Tail(names), s)

\* s.split('/').length
SplitLength(s) == 1 + Cardinality({i \in 1..Len(s) : s[i] = CH_SLASH})

----------------------------------------------------------------------------
(* Names used by the code and by the trees and rulesets of the model *)

SYSTEM_TXT == <<83, 89, 83, 84, 69, 77, 46, 116, 120, 116>>   \* "SYSTEM.txt"
N_a_txt == <<97, 46, 116, 120, 116>>                          \* "a.txt"
N_B_txt == <<66, 46, 116, 120, 116>>                          \* "B.txt"
N_img_PNG == <<105, 109, 103, 46, 80, 78, 71>>                \* "img.PNG"
N_a_txt_meta == <<97, 46, 116, 120, 116, 46, 109, 101, 116, 97, 46, 116, 120, 116>>
                                                              \* "a.txt.meta.txt"
N_docs == <<100, 111, 99, 115>>                               \* "docs"
N_Lib == <<76, 105, 98>>                                      \* "Lib"
N_docs_sp == <<32, 100, 111, 99, 115>>                        \* " docs"
N_docs_Lib == <<100, 111, 99, 115, 47, 76, 105, 98>>          \* "docs/Lib"
N_docs_bs_SYSTEM == <<100, 111, 99, 115, 92, 83, 89, 83, 84, 69, 77, 46, 116, 120, 116>>
                                                              \* "docs\SYSTEM.txt"
E_png == <<112, 110, 103>>                                    \* "png"
E_PNG == <<80, 78, 71>>                                       \* "PNG"
E_txt == <<116, 120, 116>>                                    \* "txt"
META_TXT == <<46, 109, 101, 116, 97, 46, 116, 120, 116>>      \* ".meta.txt"
OUTPUT_MD == <<111, 117, 116, 112, 117, 116, 46, 109, 100>>   \* "output.md"

CH_e == 101
CH_E_ACUTE == 233           \* U+00E9, the letter e with acute as one character
CH_COMBINING_ACUTE == 769   \* U+0301, the combining acute accent

\* The names of directory entries are kept as atoms in the tree; Chars gives
\* the characters of a name.
N_git == <<46, 103, 105, 116>>   \* ".git"
N_config == <<99, 111, 110, 102, 105, 103>>   \* "config"
HELLO == <<104, 101, 108, 108, 111>>   \* "hello"

N_output_sp == <<32>> \o OUTPUT_MD                    \* " output.md"
N_a_b_txt == <<97, 32, 98, 46, 116, 120, 116>>        \* "a b.txt"
N_a_dash_b_txt == <<97, 45, 98, 46, 116, 120, 116>>   \* "a-b.txt"

Chars(name) ==
  CASE name = "SYSTEM.txt" -> SYSTEM_TXT
    [] name = "a.txt" -> N_a_txt
    [] name = "B.txt" -> N_B_txt
    [] name = "img.PNG" -> N_img_PNG
    [] name = "a.txt.meta.txt" -> N_a_txt_meta
    [] name = "docs" -> N_docs
    [] name = "Lib" -> N_Lib
    [] name = "img.PNG.meta.txt" -> N_img_PNG \o META_TXT
    [] name = "img.png" -> toLowerCase(N_img_PNG)
    [] name = ".git" -> N_git
    [] name = "config" -> N_config
    [] name = " docs" -> N_docs_sp
    [] name = "U+00E9.txt" -> <<CH_E_ACUTE>> \o <<CH_DOT>> \o E_txt
    [] name = "eU+0301.txt" -> <<CH_e, CH_COMBINING_ACUTE>> \o <<CH_DOT>> \o E_txt
    [] name = "e.txt" -> <<CH_e>> \o <<CH_DOT>> \o E_txt
    [] name = "output.md" -> OUTPUT_MD
    [] name = " output.md" -> N_output_sp
    [] name = "a b.txt" -> N_a_b_txt
    [] name = "a-b.txt" -> N_a_dash_b_txt

----------------------------------------------------------------------------
(* src/src/ignore_handler.js *)

\* (mutant) the entry is compared with the item's name only
IgnoreEntryMatches_NameOnly(itemName, normalizedItemPath, ignoreEntry) ==
  itemName = trim(ReplaceBackslashes(ignoreEntry))

\* one iteration of the loop over config.ignore
IgnoreEntryMatches(itemName, normalizedItemPath, ignoreEntry) ==
  LET normalizedIgnoreEntry == trim(ReplaceBackslashes(ignoreEntry))
  IN itemName = normalizedIgnoreEntry \/ normalizedItemPath = normalizedIgnoreEntry

\* (mutant) the extension rules are applied to directories too
shouldIgnore_NoDirectoryShortcut(relativeItemPath, isDirectory, cfg) ==
  LET normalizedItemPath == ReplaceBackslashes(relativeItemPath)
      itemName == basename(normalizedItemPath)
      fileExtension == toLowerCase(substring(extname(normalizedItemPath), 1))
  IN \/ \E i \in 1..Len(cfg.ignore) :
          IgnoreEntryMatches(itemName, normalizedItemPath, cfg.ignore[i])
     \/ Includes(cfg.ignoreExtensions, fileExtension)
     \/ Len(cfg.includeExtensions) > 0 /\ ~Includes(cfg.includeExtensions, fileExtension)

\* (mutant) includeExtensions is not consulted
shouldIgnore_NoWhitelist(relativeItemPath, isDirectory, cfg) ==
  LET normalizedItemPath == ReplaceBackslashes(relativeItemPath)
      itemName == basename(normalizedItemPath)
      fileExtension == toLowerCase(substring(extname(normalizedItemPath), 1))
  IN \/ \E i \in 1..Len(cfg.ignore) :
          IgnoreEntryMatches(itemName, normalizedItemPath, cfg.ignore[i])
     \/ ~isDirectory /\ Includes(cfg.ignoreExtensions, fileExtension)

\* (mutant) the extension keeps its leading dot
shouldIgnore_ExtensionsWithDot(relativeItemPath, isDirectory, cfg) ==
  LET normalizedItemPath == ReplaceBackslashes(relativeItemPath)
      itemName == basename(normalizedItemPath)
  IN IF \E i \in 1..Len(cfg.ignore) :
          IgnoreEntryMatches(itemName, normalizedItemPath, cfg.ignore[i])
     THEN TRUE
     ELSE IF isDirectory THEN FALSE
     ELSE LET fileExtension == toLowerCase(extname(normalizedItemPath))
          IN IF Includes(cfg.ignoreExtensions, fileExtension) THEN TRUE
             ELSE IF Len(cfg.includeExtensions) > 0
                     /\ ~Includes(cfg.includeExtensions, fileExtension)
                  THEN TRUE
                  ELSE FALSE

\* (mutant) the extension keeps its letter case
shouldIgnore_ExtensionCaseKept(relativeItemPath, isDirectory, cfg) ==
  LET normalizedItemPath == ReplaceBackslashes(relativeItemPath)
      itemName == basename(normalizedItemPath)
  IN IF \E i \in 1..Len(cfg.ignore) :
          IgnoreEntryMatches(itemName, normalizedItemPath, cfg.ignore[i])
     THEN TRUE
     ELSE IF isDirectory THEN FALSE
     ELSE LET fileExtension == substring(extname(normalizedItemPath), 1)
          IN IF Includes(cfg.ignoreExtensions, fileExtension) THEN TRUE
             ELSE IF Len(cfg.includeExtensions) > 0
                     /\ ~Includes(cfg.includeExtensions, fileExtension)
                  THEN TRUE
                  ELSE FALSE

shouldIgnore(relativeItemPath, isDirectory, cfg) ==
  LET normalizedItemPath == ReplaceBackslashes(relativeItemPath)
      itemName == basename(normalizedItemPath)
  IN IF \E i \in 1..Len(cfg.ignore) :
          IgnoreEntryMatches(itemName, normalizedItemPath, cfg.ignore[i])
     THEN TRUE
     ELSE IF isDirectory THEN FALSE
     ELSE LET fileExtension == toLowerCase(substring(extname(normalizedItemPath), 1))
          IN IF Includes(cfg.ignoreExtensions, fileExtension) THEN TRUE
             ELSE IF Len(cfg.includeExtensions) > 0
                     /\ ~Includes(cfg.includeExtensions, fileExtension)
                  THEN TRUE
                  ELSE FALSE

----------------------------------------------------------------------------
(* String comparison and Array.prototype.sort *)

Sign(n) == IF n < 0 THEN -1 ELSE IF n > 0 THEN 1 ELSE 0

\* lexicographic comparison of two sequences of numbers: -1, 0 or 1
LexCompare(a, b) ==
  LET n == IF Len(a) < Len(b) THEN Len(a) ELSE Len(b)
      diff == {i \in 1..n : a[i] # b[i]}
  IN IF diff = {} THEN Sign(Len(a) - Len(b))
     ELSE LET i == CHOOSE k \in diff : \A j \in diff : k <= j
          IN IF a[i] < b[i] THEN -1 ELSE 1

\* comparison by code unit (what a < b does on strings)
OrdinalCompare(a, b) == LexCompare(a, b)

\* The primary collation weight of a character under the default (root)
\* collation that localeCompare uses: white space, then punctuation
\* (_ - . / \ in that order), then digits, then letters without regard to
\* case. The table covers the characters that occur in the model.
PrimaryWeight(c) ==
  IF IsUpper(c) \/ IsLower(c) THEN 1000 + LowerChar(c)
  ELSE IF IsDigit(c) THEN 500 + c
  ELSE IF IsWhiteSpace(c) THEN 1
  ELSE IF c = 95 THEN 2
  ELSE IF c = 45 THEN 3
  ELSE IF c = CH_DOT THEN 4
  ELSE IF c = CH_SLASH THEN 5
  ELSE IF c = CH_BACKSLASH THEN 6
  ELSE 100 + c

\* the tertiary (case) weight: lower case before upper case
TertiaryWeight(c) == IF IsUpper(c) THEN 1 ELSE 0

\* the canonical decomposition of a string: collation compares canonically
\* equivalent strings as equal
RECURSIVE Decompose(_)
Decompose(s) ==
  IF s = <<>> THEN <<>>
  ELSE (IF Head(s) = CH_E_ACUTE THEN <<CH_e, CH_COMBINING_ACUTE>> ELSE <<Head(s)>>)
         \o Decompose(Tail(s))

\* a combining mark has no primary weight
IsCombining(c) == c = CH_COMBINING_ACUTE

\* the secondary (accent) weight: none before acute
SecondaryWeight(c) == IF IsCombining(c) THEN 1 ELSE 0

\* String.prototype.localeCompare: the decomposed strings are compared by
\* their primary weights first; strings that are equal there are compared
\* by accent, and strings that are equal there too are compared by case
localeCompare(a, b) ==
  LET da == Decompose(a)
      db == Decompose(b)
      IsBase(c) == ~IsCombining(c)
      ba == SelectSeq(da, IsBase)
      bb == SelectSeq(db, IsBase)
      p == LexCompare([i \in 1..Len(ba) |-> PrimaryWeight(ba[i])],
                      [i \in 1..Len(bb) |-> PrimaryWeight(bb[i])])
      sec == LexCompare([i \in 1..Len(da) |-> SecondaryWeight(da[i])],
                        [i \in 1..Len(db) |-> SecondaryWeight(db[i])])
  IN IF p # 0 THEN p
     ELSE IF sec # 0 THEN sec
     ELSE LexCompare([i \in 1..Len(da) |-> TertiaryWeight(da[i])],
                     [i \in 1..Len(db) |-> TertiaryWeight(db[i])])

\* Array.prototype.sort (stable). before[i, j] says that the comparator puts
\* arr[i] before arr[j] (compare(arr[i], arr[j]) < 0): the element at index i
\* moves to the place after the elements that sort before it and the equal
\* ones that precede it
StableSort(arr, before) ==
  LET n == Len(arr)
      rank == [i \in 1..n |->
                 1 + Cardinality({j \in 1..n :
                       before[j, i] \/ (~before[i, j] /\ j < i)})]
  IN [k \in 1..n |-> arr[CHOOSE i \in 1..n : rank[i] = k]]

\* all orders in which the elements of a finite set can be enumerated
Orders(S) ==
  {f \in [1..Cardinality(S) -> S] : \A i, j \in 1..Cardinality(S) : f[i] = f[j] => i = j}

----------------------------------------------------------------------------
(* The text of a file. A file can be longer than MAX_CONTENT_LENGTH, so    *)
(* its text is kept run-length encoded: a sequence of runs of one          *)
(* character, no run empty and no two neighbours of the same character.    *)
(* Every string has exactly one such form.                                 *)

RunOf(ch, n) == [ch |-> ch, n |-> n]

\* the run-length form of a sequence of runs: empty runs dropped,
\* neighbours of the same character joined
RECURSIVE Merge(_)
Merge(runs) ==
  IF runs = <<>> THEN <<>>
  ELSE IF Head(runs).n = 0 THEN Merge(Tail(runs))
  ELSE IF Len(runs) = 1 THEN runs
  ELSE IF runs[2].n = 0 THEN Merge(<<runs[1]>> \o SubSeq(runs, 3, Len(runs)))
  ELSE IF runs[1].ch = runs[2].ch
  THEN Merge(<<RunOf(runs[1].ch, runs[1].n + runs[2].n)>> \o SubSeq(runs, 3, Len(runs)))
  ELSE <<runs[1]>> \o Merge(Tail(runs))

\* the text of a string given by its characters
Text(chars) == Merge([i \in 1..Len(chars) |-> RunOf(chars[i], 1)])

\* the characters of a text (of a short one)
RECURSIVE Expand(_)
Expand(text) ==
  IF text = <<>> THEN <<>>
  ELSE [k \in 1..Head(text).n |-> Head(text).ch] \o Expand(Tail(text))

\* a + b
TextConcat(a, b) == Merge(a \o b)

\* text.length
RECURSIVE TextLength(_)
TextLength(text) == IF text = <<>> THEN 0 ELSE Head(text).n + TextLength(Tail(text))

\* text.substring(0, n)
RECURSIVE TextTake(_, _)
TextTake(text, n) ==
  IF n <= 0 \/ text = <<>> THEN <<>>
  ELSE IF Head(text).n >= n THEN <<RunOf(Head(text).ch, n)>>
  ELSE <<Head(text)>> \o TextTake(Tail(text), n - Head(text).n)

----------------------------------------------------------------------------
(* The directory tree under the scan root. A node is its list of names    *)
(* from the root and its kind; the root itself is the empty list.          *)

Dir(p) == [path |-> p, kind |-> "dir"]
File(p) == [path |-> p, kind |-> "file"]
Other(p) == [path |-> p, kind |-> "other"]   \* neither isFile nor isDirectory

\* the files (and one entry that is neither file nor directory) a tree of the
\* model is drawn from; the directories of a tree are those its files lie in
Leaves ==
  { File(<<"a.txt">>), File(<<"B.txt">>), File(<<"SYSTEM.txt">>),
    File(<<"a.txt.meta.txt">>), File(<<"img.PNG">>),
    File(<<"docs", "SYSTEM.txt">>), Other(<<"docs", "B.txt">>),
    File(<<"Lib", "SYSTEM.txt">>),
    File(<<"docs", "Lib", "a.txt">>) }

Universe == Leaves \cup {Dir(<<"docs">>), Dir(<<"Lib">>), Dir(<<"docs", "Lib">>)}

MaxFiles == 3
MaxUnreadable == 1

Root == <<>>
Parent(p) == SubSeq(p, 1, Len(p) - 1)
\* entry.name
Name(p) == Chars(p[Len(p)])

\* the directories above a node, the scan root excluded
Ancestors(p) == {SubSeq(p, 1, k) : k \in 1..(Len(p) - 1)}

Tree(leaves) == leaves \cup {Dir(d) : d \in UNION {Ancestors(n.path) : n \in leaves}}

Trees == {Tree(leaves) : leaves \in {l \in SUBSET Leaves : Cardinality(l) <= MaxFiles}}

DirsOf(t) == {Root} \cup {n.path : n \in {m \in t : m.kind = "dir"}}
FilesOf(t) == {n.path : n \in {m \in t : m.kind = "file"}}

\* the entries readdir returns for a directory
Children(t, d) == {n \in t : Len(n.path) = Len(d) + 1 /\ Parent(n.path) = d}

\* path.relative(baseScanPath, fullPath) of a node below the scan root
PathWith(p, s) == Join([i \in 1..Len(p) |-> Chars(p[i])], s)
RelativePath(p) == PathWith(p, sep)

\* the text the files have where the text does not matter: the name of
\* the file, after a blank and before a line end
DefaultContent(t) ==
  [p \in FilesOf(t) |-> Text(<<32>> \o Chars(p[Len(p)]) \o <<10>>)]

----------------------------------------------------------------------------
(* Rulesets *)

IgnoreLists ==
  { <<>>, <<N_docs>>, <<N_docs_Lib>>, <<N_docs_sp>>, <<N_docs_bs_SYSTEM>>,
    <<N_Lib, SYSTEM_TXT>> }

ExtensionRules ==
  { [ignoreExtensions |-> <<>>, includeExtensions |-> <<>>],
    [ignoreExtensions |-> <<E_png>>, includeExtensions |-> <<>>],
    [ignoreExtensions |-> <<E_PNG>>, includeExtensions |-> <<E_txt, E_png>>],
    [ignoreExtensions |-> <<>>, includeExtensions |-> <<E_txt>>] }

Config(ig, ext) ==
  [ignore |-> ig, ignoreExtensions |-> ext.ignoreExtensions,
   includeExtensions |-> ext.includeExtensions,
   metadataSuffix |-> META_TXT, output |-> OUTPUT_MD]

Configs == {Config(ig, ext) : ig \in IgnoreLists, ext \in ExtensionRules}

NoExtensionRules == [ignoreExtensions |-> <<>>, includeExtensions |-> <<>>]

\* the platforms (path.sep) and rulesets the walk is run with
ScanPlatforms ==
  { [sep |-> CH_SLASH, config |-> Config(<<>>, NoExtensionRules)],
    [sep |-> CH_SLASH, config |-> Config(<<N_docs_Lib, N_docs_bs_SYSTEM>>, NoExtensionRules)],
    [sep |-> CH_SLASH, config |->
       Config(<<N_docs_sp, N_B_txt>>,
              [ignoreExtensions |-> <<E_png>>, includeExtensions |-> <<>>])],
    [sep |-> CH_SLASH, config |->
       Config(<<N_Lib>>, [ignoreExtensions |-> <<>>, includeExtensions |-> <<E_txt>>])],
    [sep |-> CH_BACKSLASH, config |-> Config(<<>>, NoExtensionRules)],
    [sep |-> CH_BACKSLASH, config |->
       Config(<<N_docs_Lib, N_docs_bs_SYSTEM>>,
              [ignoreExtensions |-> <<>>, includeExtensions |-> <<E_png>>])] }

----------------------------------------------------------------------------
(* shouldIgnore called on its own *)

IgnorePaths ==
  {PathWith(n.path, s) : n \in Universe, s \in {CH_SLASH, CH_BACKSLASH}}
    \cup {N_docs_sp, E_PNG, <<46, 103, 105, 116>>}
    \cup {toLowerCase(N_Lib), toLowerCase(N_img_PNG)}

\* the run has not started
RunIdle ==
  /\ foundSystemFiles = <<>>
  /\ systemFileInfo = <<>>
  /\ systemFilePreamble = <<>>
  /\ tasksPending = {}
  /\ processedFileResults = <<>>
  /\ outOfOrder = FALSE
  /\ finalMarkdown = <<>>
  /\ readCalls = {}
  /\ writeCalls = 0
  /\ outputFile = <<>>
  /\ successReported = FALSE
  /\ exitCode = "running"

\* no call of pathToAnchor is under check
AnchorIdle ==
  /\ anchorPath = <<>>
  /\ anchor = <<>>

Idle ==
  /\ scanStack = <<>>
  /\ filesList = <<>>
  /\ readdirCalls = {}
  /\ filesToProcess = <<>>
  /\ RunIdle

InitIgnore ==
  /\ sep = CH_SLASH
  /\ fs = {}
  /\ content = <<>>
  /\ unreadable = {}
  /\ config \in Configs
  /\ pc = "shouldIgnore"
  /\ igArgs \in [relativeItemPath : IgnorePaths, isDirectory : BOOLEAN]
  /\ igResult = "none"
  /\ AnchorIdle
  /\ Idle

CallShouldIgnore ==
  /\ pc = "shouldIgnore"
  /\ igResult' = shouldIgnore(igArgs.relativeItemPath, igArgs.isDirectory, config)
  /\ pc' = "returned"
  /\ UNCHANGED <<anchorVars, sep, fs, content, unreadable, config, igArgs, scanStack, filesList,
                 readdirCalls, filesToProcess, runVars>>

NextIgnore == CallShouldIgnore

SpecIgnore == InitIgnore /\ [][NextIgnore]_vars

----------------------------------------------------------------------------
(* src/src/file_scanner.js: scanProjectFiles and scanDirectoryRecursive *)

\* a call of scanDirectoryRecursive: before its readdir ("enter") or in its
\* loop over the entries that readdir returned ("loop")
Frame(d, st, es) == [dir |-> d, state |-> st, entries |-> es]

Top(stack) == stack[Len(stack)]
Pop(stack) == SubSeq(stack, 1, Len(stack) - 1)
ReplaceTop(stack, f) == Pop(stack) \o <<f>>

\* filesList.sort((a, b) => a.path.localeCompare(b.path))
SortFiles(files) ==
  StableSort(files, [i \in 1..Len(files), j \in 1..Len(files) |->
                       localeCompare(files[i].path, files[j].path) < 0])

\* scanProjectFiles starts the walk at the scan root
StartScan ==
  /\ scanStack' = <<Frame(Root, "enter", <<>>)>>
  /\ filesList' = <<>>
  /\ readdirCalls' = {}

\* a call of scanDirectoryRecursive returns; when it is the call on the
\* scan root, scanProjectFiles sorts the accumulator in place and returns it
ScanReturn(files) ==
  IF Len(scanStack) = 1
  THEN /\ scanStack' = <<>>
       /\ filesList' = SortFiles(files)
       /\ filesToProcess' = filesList'
       /\ pc' = "scanned"
  ELSE /\ scanStack' = Pop(scanStack)
       /\ filesList' = files
       /\ UNCHANGED <<filesToProcess, pc>>

\* the name of the directory that is the scan root (the last segment of
\* scanRootPath); the walk works with paths relative to the root
ScanRootName == N_docs

\* (mutant) the scan root is checked too, under its own name
DirectoryIgnored_RootByName(currentDir, cfg) ==
  shouldIgnore(IF currentDir = Root THEN ScanRootName ELSE RelativePath(currentDir),
               TRUE, cfg)

\* the ignore check at the start of scanDirectoryRecursive: the path
\* relative to the scan root is '.' for the root itself, which is not checked
DirectoryIgnored(currentDir, cfg) ==
  LET relativeCurrentDirPath ==
        IF currentDir = Root THEN <<CH_DOT>> ELSE RelativePath(currentDir)
  IN relativeCurrentDirPath # <<CH_DOT>> /\ shouldIgnore(relativeCurrentDirPath, TRUE, cfg)

\* (mutant) every directory can be listed
ReaddirFails_Never(dir) == FALSE

\* readdir(currentDirPath) throws
ReaddirFails(dir) == dir \in unreadable

\* the start of scanDirectoryRecursive: the ignore check of the directory
\* itself and the readdir
ScanEnterDirectory ==
  /\ pc = "scan"
  /\ scanStack # <<>>
  /\ Top(scanStack).state = "enter"
  /\ LET currentDir == Top(scanStack).dir
     IN IF DirectoryIgnored(currentDir, config)
        THEN /\ ScanReturn(filesList)
             /\ UNCHANGED readdirCalls
        ELSE /\ readdirCalls' = readdirCalls \cup {currentDir}
             /\ IF ReaddirFails(currentDir)
                THEN ScanReturn(filesList)
                ELSE /\ \E entries \in Orders(Children(fs, currentDir)) :
                          scanStack' =
                            ReplaceTop(scanStack, Frame(currentDir, "loop", entries))
                     /\ UNCHANGED <<filesList, filesToProcess, pc>>
  /\ UNCHANGED <<anchorVars, sep, fs, content, unreadable, config, igArgs, igResult, runVars>>

\* (mutant) every entry is checked as if it were a file
EntryIgnored_AsFile(entry, cfg) == shouldIgnore(RelativePath(entry.path), FALSE, cfg)

\* the ignore check of one entry, by its path relative to the scan root
EntryIgnored(entry, cfg) ==
  shouldIgnore(RelativePath(entry.path), entry.kind = "dir", cfg)

\* (mutant) the loop does not move on after the call on a directory
ScanEntry_DirectoryNotConsumed ==
  /\ pc = "scan"
  /\ scanStack # <<>>
  /\ Top(scanStack).state = "loop"
  /\ LET top == Top(scanStack)
     IN IF top.entries = <<>>
        THEN ScanReturn(filesList)
        ELSE LET entry == Head(top.entries)
                 rest == Frame(top.dir, "loop", Tail(top.entries))
                 relativeEntryPath == RelativePath(entry.path)
             IN /\ IF EntryIgnored(entry, config)
                   THEN /\ scanStack' = ReplaceTop(scanStack, rest)
                        /\ UNCHANGED filesList
                   ELSE IF entry.kind = "dir"
                   THEN /\ scanStack' = scanStack \o <<Frame(entry.path, "enter", <<>>)>>
                        /\ UNCHANGED filesList
                   ELSE IF entry.kind = "file"
                   THEN /\ filesList' = Append(filesList,
                             [path |-> ReplaceBackslashes(relativeEntryPath),
                              fullPath |-> entry.path])
                        /\ scanStack' = ReplaceTop(scanStack, rest)
                   ELSE /\ scanStack' = ReplaceTop(scanStack, rest)
                        /\ UNCHANGED filesList
                /\ UNCHANGED <<filesToProcess, pc>>
  /\ UNCHANGED <<anchorVars, sep, fs, content, unreadable, config, igArgs, igResult, readdirCalls, runVars>>

\* one iteration of the loop over the entries, or the return after the last
ScanEntry ==
  /\ pc = "scan"
  /\ scanStack # <<>>
  /\ Top(scanStack).state = "loop"
  /\ LET top == Top(scanStack)
     IN IF top.entries = <<>>
        THEN ScanReturn(filesList)
        ELSE LET entry == Head(top.entries)
                 rest == Frame(top.dir, "loop", Tail(top.entries))
                 relativeEntryPath == RelativePath(entry.path)
             IN /\ IF EntryIgnored(entry, config)
                   THEN /\ scanStack' = ReplaceTop(scanStack, rest)
                        /\ UNCHANGED filesList
                   ELSE IF entry.kind = "dir"
                   THEN /\ scanStack' =
                             ReplaceTop(scanStack, rest) \o <<Frame(entry.path, "enter", <<>>)>>
                        /\ UNCHANGED filesList
                   ELSE IF entry.kind = "file"
                   THEN /\ filesList' = Append(filesList,
                             [path |-> ReplaceBackslashes(relativeEntryPath),
                              fullPath |-> entry.path])
                        /\ scanStack' = ReplaceTop(scanStack, rest)
                   ELSE /\ scanStack' = ReplaceTop(scanStack, rest)
                        /\ UNCHANGED filesList
                /\ UNCHANGED <<filesToProcess, pc>>
  /\ UNCHANGED <<anchorVars, sep, fs, content, unreadable, config, igArgs, igResult, readdirCalls, runVars>>

InitScan ==
  /\ \E pf \in ScanPlatforms : sep = pf.sep /\ config = pf.config
  /\ fs \in Trees
  /\ content = DefaultContent(fs)
  /\ unreadable \in {u \in SUBSET DirsOf(fs) : Cardinality(u) <= MaxUnreadable}
  /\ pc = "scan"
  /\ igArgs = "none"
  /\ igResult = "none"
  /\ AnchorIdle
  /\ scanStack = <<Frame(Root, "enter", <<>>)>>
  /\ filesList = <<>>
  /\ readdirCalls = {}
  /\ filesToProcess = <<>>
  /\ RunIdle

NextScan == ScanEnterDirectory \/ ScanEntry

SpecScan == InitScan /\ [][NextScan]_vars

\* scanProjectFiles is a chain of awaited calls of readdir, each of which
\* settles: a walk that has not returned takes a step. This is weak fairness
\* of NextScan, written with pc # "scan", the states in which no step of
\* NextScan is possible, in the place of the states in which it is not
\* enabled.
SpecScanFair == SpecScan /\ ([]<><<NextScan>>_vars \/ <>[](pc # "scan"))

\* The walk on trees with two names that are canonically equivalent: the
\* letter e with acute as one character and as e followed by the combining
\* accent. A file system that compares names by their bytes holds both.
EquivalentLeaves ==
  { File(<<"U+00E9.txt">>), File(<<"eU+0301.txt">>), File(<<"e.txt">>), File(<<"a.txt">>),
    File(<<"docs", "U+00E9.txt">>), File(<<"docs", "eU+0301.txt">>),
    File(<<"docs", "B.txt">>) }

EquivalentTrees ==
  {Tree(leaves) : leaves \in {l \in SUBSET EquivalentLeaves : Cardinality(l) <= MaxFiles}}

InitScanEquivalent ==
  /\ sep = CH_SLASH
  /\ \E ig \in {<<>>, <<N_docs>>} : config = Config(ig, NoExtensionRules)
  /\ fs \in EquivalentTrees
  /\ content = DefaultContent(fs)
  /\ unreadable = {}
  /\ pc = "scan"
  /\ igArgs = "none"
  /\ igResult = "none"
  /\ AnchorIdle
  /\ scanStack = <<Frame(Root, "enter", <<>>)>>
  /\ filesList = <<>>
  /\ readdirCalls = {}
  /\ filesToProcess = <<>>
  /\ RunIdle

SpecScanEquivalent == InitScanEquivalent /\ [][NextScan]_vars

----------------------------------------------------------------------------
(* src/src/file_scanner.js: findSystemFile and findSystemTxtRecursive *)

HardcodedSystemSearchIgnores ==
  {
    <<46, 103, 105, 116>>, <<110, 111, 100, 101, 95, 109, 111, 100, 117, 108, 101, 115>>,   \* .git node_modules
    <<100, 105, 115, 116>>, <<98, 117, 105, 108, 100>>,   \* dist build
    <<111, 117, 116>>, <<116, 97, 114, 103, 101, 116>>,   \* out target
    <<46, 110, 101, 120, 116>>, <<46, 110, 117, 120, 116>>,   \* .next .nuxt
    <<46, 115, 118, 101, 108, 116, 101, 45, 107, 105, 116>> }   \* .svelte-kit

\* (mutant) the hard-coded names are not looked at
IgnoreThisDir_ConfigOnly(dirName, cfg) ==
  \E i \in 1..Len(cfg.ignore) : dirName = trim(ReplaceBackslashes(cfg.ignore[i]))

\* the pruning of the SYSTEM.txt search: the directory's name is an entry of
\* config.ignore or one of the hard-coded names
IgnoreThisDir(dirName, cfg) ==
  \/ \E i \in 1..Len(cfg.ignore) : dirName = trim(ReplaceBackslashes(cfg.ignore[i]))
  \/ dirName \in HardcodedSystemSearchIgnores

\* The lists findSystemTxtRecursive can leave in foundSystemFilesList when
\* called on directory dir of tree t, one for every order readdir can give:
\* a file named SYSTEM.txt is pushed, a directory that is not pruned is
\* searched before the next entry, an unlistable directory adds nothing.
RECURSIVE FoundSystemFiles(_, _, _, _)
RECURSIVE SearchEntries(_, _, _, _)
SearchEntries(t, unread, cfg, entries) ==
  IF entries = <<>> THEN {<<>>}
  ELSE LET entry == Head(entries)
           pushed == IF Name(entry.path) = SYSTEM_TXT /\ entry.kind = "file"
                     THEN {<<entry.path>>}
                     ELSE IF entry.kind = "dir" /\ ~IgnoreThisDir(Name(entry.path), cfg)
                     THEN FoundSystemFiles(t, unread, cfg, entry.path)
                     ELSE {<<>>}
       IN {x \o y : x \in pushed, y \in SearchEntries(t, unread, cfg, Tail(entries))}

FoundSystemFiles(t, unread, cfg, dir) ==
  IF dir \in unread THEN {<<>>}
  ELSE UNION {SearchEntries(t, unread, cfg, entries) : entries \in Orders(Children(t, dir))}

\* an element of foundSystemFiles
SystemFile(p) == [fullPath |-> p, relativePath |-> ReplaceBackslashes(RelativePath(p))]

\* the comparator of findSystemFile: shallowest first, then localeCompare
SystemFileBefore(a, b) ==
  LET depthA == SplitLength(a.relativePath)
      depthB == SplitLength(b.relativePath)
  IN IF depthA # depthB THEN depthA - depthB < 0
     ELSE localeCompare(a.relativePath, b.relativePath) < 0

\* foundSystemFiles.sort(...), in place
SortSystemFiles(found) ==
  StableSort(found, [i \in 1..Len(found), j \in 1..Len(found) |->
                       SystemFileBefore(found[i], found[j])])

\* findSystemFile on the list of the files found: null (the empty sequence
\* here), or the first after sorting (a sequence of one element here)
SelectSystemFile(found) ==
  IF Len(found) = 0 THEN <<>>
  ELSE <<StableSort(found, [i \in 1..Len(found), j \in 1..Len(found) |->
                             SystemFileBefore(found[i], found[j])])[1]>>

----------------------------------------------------------------------------
(* src/src/file_processor.js *)

COMMON_BINARY_EXTENSIONS ==
  {
    <<46, 101, 120, 101>>, <<46, 100, 108, 108>>, <<46, 115, 111>>,   \* .exe .dll .so
    <<46, 100, 121, 108, 105, 98>>, <<46, 111>>, <<46, 97>>,   \* .dylib .o .a
    <<46, 108, 105, 98>>, <<46, 98, 117, 110, 100, 108, 101>>, <<46, 111, 98, 106>>,   \* .lib .bundle .obj
    <<46, 112, 100, 98>>, <<46, 99, 108, 97, 115, 115>>, <<46, 112, 121, 99>>,   \* .pdb .class .pyc
    <<46, 112, 121, 111>>, <<46, 98, 101, 97, 109>>, <<46, 99, 109, 111>>,   \* .pyo .beam .cmo
    <<46, 99, 109, 105>>, <<46, 99, 109, 120>>, <<46, 122, 105, 112>>,   \* .cmi .cmx .zip
    <<46, 116, 97, 114>>, <<46, 103, 122>>, <<46, 114, 97, 114>>,   \* .tar .gz .rar
    <<46, 55, 122>>, <<46, 106, 97, 114>>, <<46, 119, 97, 114>>,   \* .7z .jar .war
    <<46, 110, 117, 112, 107, 103>>, <<46, 112, 107, 103>>, <<46, 100, 109, 103>>,   \* .nupkg .pkg .dmg
    <<46, 112, 110, 103>>, <<46, 106, 112, 103>>, <<46, 106, 112, 101, 103>>,   \* .png .jpg .jpeg
    <<46, 103, 105, 102>>, <<46, 98, 109, 112>>, <<46, 116, 105, 102, 102>>,   \* .gif .bmp .tiff
    <<46, 119, 101, 98, 112>>, <<46, 105, 99, 111>>, <<46, 109, 112, 51>>,   \* .webp .ico .mp3
    <<46, 119, 97, 118>>, <<46, 111, 103, 103>>, <<46, 109, 112, 52>>,   \* .wav .ogg .mp4
    <<46, 109, 111, 118>>, <<46, 97, 118, 105>>, <<46, 112, 100, 102>>,   \* .mov .avi .pdf
    <<46, 119, 111, 102, 102>>, <<46, 119, 111, 102, 102, 50>>, <<46, 116, 116, 102>>,   \* .woff .woff2 .ttf
    <<46, 111, 116, 102>>, <<46, 101, 111, 116>>, <<46, 115, 113, 108, 105, 116, 101>>,   \* .otf .eot .sqlite
    <<46, 100, 98>>, <<46, 100, 97, 116>> }   \* .db .dat

MAX_CONTENT_LENGTH == 200000

CH_BACKTICK == 96
CH_a == 97
CH_DASH == 45
CH_NEWLINE == 10

\* "\n\n... [Content truncated due to length] ..."
TRUNCATION_MARKER == 
  <<10, 10, 46, 46, 46, 32, 91, 67, 111, 110, 116, 101, 110, 116, 32, 116, 114, 117, 110, 99, 97, 116, 101, 100, 32, 100, 117, 101, 32, 116, 111, 32, 108, 101, 110, 103, 116, 104, 93, 32, 46, 46, 46>>
TEXT_LANG == <<116, 101, 120, 116>>   \* "text"
SYSTEM_PREFIX == <<83, 89, 83, 84, 69, 77, 58, 32>>   \* "SYSTEM: "

\* what readFile(path, 'utf8') gives for a file of the tree
ContentOf(p) == content[p]

\* readFile succeeds on the regular files that are readable
Readable(t, unread, p) ==
  /\ \E n \in t : n.path = p /\ n.kind = "file"
  /\ p \notin unread

\* what readMetadataFile looks for: the nodes named as the main file plus
\* the suffix, in the same directory
MetadataFiles(t, mainFilePath, metadataSuffix) ==
  {n \in t : /\ Len(n.path) = Len(mainFilePath)
             /\ Parent(n.path) = Parent(mainFilePath)
             /\ Name(n.path) = Name(mainFilePath) \o metadataSuffix}

\* (mutant) the content of the metadata file is returned as read
readMetadataFile_Untrimmed(t, unread, mainFilePath, metadataSuffix) ==
  LET siblings == MetadataFiles(t, mainFilePath, metadataSuffix)
  IN IF siblings = {} THEN <<>>
     ELSE LET meta == CHOOSE n \in siblings : TRUE
          IN IF Readable(t, unread, meta.path) THEN <<Expand(ContentOf(meta.path))>>
             ELSE <<>>

\* readMetadataFile: the trimmed content of the file named as the main file
\* plus the suffix, in the same directory; null (the empty sequence here)
\* when it does not exist or cannot be read
readMetadataFile(t, unread, mainFilePath, metadataSuffix) ==
  LET siblings == MetadataFiles(t, mainFilePath, metadataSuffix)
  IN IF siblings = {} THEN <<>>
     ELSE LET meta == CHOOSE n \in siblings : TRUE
          IN IF Readable(t, unread, meta.path) THEN <<trim(Expand(ContentOf(meta.path)))>>
             ELSE <<>>

\* k times the six characters \`\`\`
RECURSIVE EscapedTriples(_)
EscapedTriples(k) ==
  IF k = 0 THEN <<>>
  ELSE [i \in 1..6 |-> RunOf(IF i % 2 = 1 THEN CH_BACKSLASH ELSE CH_BACKTICK, 1)]
         \o EscapedTriples(k - 1)

\* the matches of /```/g lie in the runs of backticks, one after the other
\* from the start of each run
RECURSIVE EscapeRuns(_)
EscapeRuns(text) ==
  IF text = <<>> THEN <<>>
  ELSE (IF Head(text).ch = CH_BACKTICK
        THEN EscapedTriples(Head(text).n \div 3) \o <<RunOf(CH_BACKTICK, Head(text).n % 3)>>
        ELSE <<Head(text)>>)
       \o EscapeRuns(Tail(text))

\* (mutant) nothing is escaped
EscapeBackticks_Nothing(text) == text

\* fileContent.replace(/```/g, '\\`\\`\\`')
EscapeBackticks(text) == Merge(EscapeRuns(text))

\* (mutant) the cut is made from MAX_CONTENT_LENGTH characters on
Truncate_AtThreshold(text) ==
  IF TextLength(text) >= MAX_CONTENT_LENGTH
  THEN TextConcat(TextTake(text, MAX_CONTENT_LENGTH), Text(TRUNCATION_MARKER))
  ELSE text

\* the cut at MAX_CONTENT_LENGTH
Truncate(text) ==
  IF TextLength(text) > MAX_CONTENT_LENGTH
  THEN TextConcat(TextTake(text, MAX_CONTENT_LENGTH), Text(TRUNCATION_MARKER))
  ELSE text

\* (mutant) no extension counts as binary
isBinary_Never(fileExtension) == FALSE

\* COMMON_BINARY_EXTENSIONS.includes(fileExtension)
isBinary(fileExtension) == fileExtension \in COMMON_BINARY_EXTENSIONS

\* The pieces of a section's markdown, in the order they are appended:
\*   Heading(p)        "## p\n\n"
\*   BinaryNote(ext)   "*Binary file (ext: ...) - content not included*\n\n"
\*   UnreadableNote    "*Unable to read file as text (Error: ...). ...*\n\n"
\*   MetadataBlock(m)  "**Associated Metadata:**\n```text\n m \n```\n\n"
\*   CodeBlock(l, c)   "```l\n c \n```\n\n"
Heading(p) == [kind |-> "heading", text |-> p]
BinaryNote(ext) == [kind |-> "binary", text |-> ext]
UnreadableNote == [kind |-> "unreadable", text |-> <<>>]
MetadataBlock(m) == [kind |-> "metadata", text |-> m]
CodeBlock(lang, c) == [kind |-> "code", lang |-> lang, text |-> c]

\* (mutant) a failed read of the file is not caught
processFileContent_ReadErrorEscapes(t, unread, fileInfo, cfg) ==
  IF Readable(t, unread, fileInfo.fullPath)
        \/ toLowerCase(extname(fileInfo.path)) \in COMMON_BINARY_EXTENSIONS
  THEN [status |-> "fulfilled",
        value |-> [path |-> fileInfo.path, markdown |-> <<Heading(fileInfo.path)>>]]
  ELSE [status |-> "rejected"]

\* processFileContent: the promise it returns, settled
processFileContent(t, unread, fileInfo, cfg) ==
  LET normalizedPath == fileInfo.path
      fileExtension == toLowerCase(extname(normalizedPath))
      metadata == readMetadataFile(t, unread, fileInfo.fullPath, cfg.metadataSuffix)
      fileContent == Truncate(EscapeBackticks(ContentOf(fileInfo.fullPath)))
      lang == IF substring(fileExtension, 1) = <<>> THEN TEXT_LANG
              ELSE substring(fileExtension, 1)
      markdownContent ==
        IF isBinary(fileExtension)
        THEN <<Heading(normalizedPath), BinaryNote(fileExtension)>>
        ELSE IF ~Readable(t, unread, fileInfo.fullPath)
        THEN <<Heading(normalizedPath), UnreadableNote>>
        ELSE <<Heading(normalizedPath)>>
               \o (IF metadata # <<>> /\ metadata[1] # <<>>
                   THEN <<MetadataBlock(metadata[1])>> ELSE <<>>)
               \o <<CodeBlock(lang, fileContent)>>
  IN [status |-> "fulfilled",
      value |-> [path |-> normalizedPath, markdown |-> markdownContent]]

\* the files processFileContent calls readFile on: none for a binary
\* extension, else the file itself and, when that read succeeded and the
\* metadata file exists, the metadata file
FilesReadBy(t, unread, fileInfo, cfg) ==
  IF isBinary(toLowerCase(extname(fileInfo.path))) THEN {}
  ELSE {fileInfo.fullPath}
       \cup (IF Readable(t, unread, fileInfo.fullPath)
             THEN {n.path : n \in MetadataFiles(t, fileInfo.fullPath, cfg.metadataSuffix)}
             ELSE {})

\* replace every maximal run of character c in s by the single character r
RECURSIVE CollapseRuns(_, _, _)
CollapseRuns(s, c, r) ==
  IF Len(s) = 0 THEN <<>>
  ELSE IF s[1] # c THEN <<s[1]>> \o CollapseRuns(Tail(s), c, r)
  ELSE IF Len(s) >= 2 /\ s[2] = c THEN CollapseRuns(Tail(s), c, r)
  ELSE <<r>> \o CollapseRuns(Tail(s), c, r)

\* (mutant) the dashes at the two ends are kept
pathToAnchor_EndsKept(filePath) ==
  LET lowered == ReplaceBackslashes(toLowerCase(filePath))
      dashed == [i \in 1..Len(lowered) |->
                   IF IsLower(lowered[i]) \/ IsDigit(lowered[i])
                      \/ lowered[i] = CH_SLASH \/ lowered[i] = CH_DASH
                   THEN lowered[i] ELSE CH_DASH]
  IN CollapseRuns(CollapseRuns(dashed, CH_SLASH, CH_DASH), CH_DASH, CH_DASH)

pathToAnchor(filePath) ==
  LET lowered == ReplaceBackslashes(toLowerCase(filePath))
      dashed == [i \in 1..Len(lowered) |->
                   IF IsLower(lowered[i]) \/ IsDigit(lowered[i])
                      \/ lowered[i] = CH_SLASH \/ lowered[i] = CH_DASH
                   THEN lowered[i] ELSE CH_DASH]
      collapsed == CollapseRuns(CollapseRuns(dashed, CH_SLASH, CH_DASH), CH_DASH, CH_DASH)
      noLead == IF Len(collapsed) > 0 /\ collapsed[1] = CH_DASH THEN Tail(collapsed)
                ELSE collapsed
  IN IF Len(noLead) > 0 /\ noLead[Len(noLead)] = CH_DASH
     THEN SubSeq(noLead, 1, Len(noLead) - 1)
     ELSE noLead

----------------------------------------------------------------------------
(* pathToAnchor called on its own *)

MaxPathLen == 4

CH_B == 66
CH_0 == 48
CH_BLANK == 32

\* the characters the paths under check are made of
AnchorAlphabet == {CH_a, CH_B, CH_0, CH_DASH, CH_SLASH, CH_BACKSLASH, CH_BLANK, CH_DOT}

AnchorPaths == UNION {[1..n -> AnchorAlphabet] : n \in 0..MaxPathLen}

InitAnchor ==
  /\ sep = CH_SLASH
  /\ fs = {}
  /\ content = <<>>
  /\ unreadable = {}
  /\ config = Config(<<>>, NoExtensionRules)
  /\ pc = "pathToAnchor"
  /\ igArgs = "none"
  /\ igResult = "none"
  /\ anchorPath \in AnchorPaths
  /\ anchor = <<>>
  /\ Idle

CallPathToAnchor ==
  /\ pc = "pathToAnchor"
  /\ anchor' = pathToAnchor(anchorPath)
  /\ pc' = "anchored"
  /\ UNCHANGED <<anchorPath, sep, fs, content, unreadable, config, igArgs, igResult,
                 scanStack, filesList, readdirCalls, filesToProcess, runVars>>

NextAnchor == CallPathToAnchor

SpecAnchor == InitAnchor /\ [][NextAnchor]_vars

----------------------------------------------------------------------------
(* src/src/main.js: one run, started in the scan root, with the rule set
   as loaded; the files that cannot be read are chosen at the start *)

DEFAULT_IGNORE == <<<<110, 111, 100, 101, 95, 109, 111, 100, 117, 108, 101, 115>>, N_git>>   \* node_modules, .git

MainPlatforms ==
  { [sep |-> CH_SLASH, config |-> Config(DEFAULT_IGNORE, NoExtensionRules)],
    [sep |-> CH_SLASH,
     config |-> Config(<<N_docs_sp, SYSTEM_TXT>>,
                       [ignoreExtensions |-> <<E_png>>, includeExtensions |-> <<>>])],
    [sep |-> CH_BACKSLASH, config |-> Config(DEFAULT_IGNORE, NoExtensionRules)] }

\* config.ignore.includes(x)
IgnoreIncludes(ignore, x) == \E i \in 1..Len(ignore) : ignore[i] = x

\* (mutant) the pushed entry takes the place of the list
PushIfAbsent_Replacing(ignore, x) ==
  IF x # <<>> /\ ~IgnoreIncludes(ignore, x) THEN <<x>> ELSE ignore

\* if (x && !config.ignore.includes(x)) config.ignore.push(x)
PushIfAbsent(ignore, x) ==
  IF x # <<>> /\ ~IgnoreIncludes(ignore, x) THEN Append(ignore, x) ELSE ignore

Init ==
  /\ \E pf \in MainPlatforms : sep = pf.sep /\ config = pf.config
  /\ fs \in Trees
  /\ content = DefaultContent(fs)
  /\ unreadable \in {u \in SUBSET FilesOf(fs) : Cardinality(u) <= MaxUnreadable}
  /\ pc = "start"
  /\ igArgs = "none"
  /\ igResult = "none"
  /\ AnchorIdle
  /\ Idle

\* const systemFileInfo = await findSystemFile(scanRootPath, config)
MainFindSystemFile ==
  /\ pc = "start"
  /\ \E found \in FoundSystemFiles(fs, unreadable, config, Root) :
       LET foundList == [i \in 1..Len(found) |-> SystemFile(found[i])]
       IN /\ foundSystemFiles' = SortSystemFiles(foundList)
          /\ systemFileInfo' = SelectSystemFile(foundList)
  /\ pc' = "preamble"
  /\ UNCHANGED <<anchorVars, sep, fs, content, unreadable, config, igArgs, igResult, scanStack, filesList,
                 readdirCalls, filesToProcess, systemFilePreamble, tasksPending,
                 processedFileResults, outOfOrder, finalMarkdown, readCalls, writeCalls, outputFile,
                 successReported, exitCode>>

\* the ignore list after the preamble is read: the push of the selected
\* file's path follows the read in the same try block
IgnoreAfterPreamble(ignore, info, readOk) ==
  IF info # <<>> /\ readOk THEN PushIfAbsent(ignore, info[1].relativePath) ELSE ignore

\* (mutant) the failed read of the preamble is thrown on to the outer catch
PreambleReadFatal_Rethrown(info, readOk) == info # <<>> /\ ~readOk

\* the catch block of the preamble's read logs a warning and throws nothing:
\* no outcome of the read ends the run
PreambleReadFatal(info, readOk) == FALSE

\* the reading of the preamble, the additions to config.ignore and the call
\* of scanProjectFiles
MainPreamble ==
  /\ pc = "preamble"
  /\ readCalls' = readCalls \cup (IF systemFileInfo # <<>>
                                   THEN {[by |-> 0, path |-> systemFileInfo[1].fullPath]}
                                   ELSE {})
  /\ LET readOk == systemFileInfo # <<>>
                     /\ Readable(fs, unreadable, systemFileInfo[1].fullPath)
         afterSystem == IgnoreAfterPreamble(config.ignore, systemFileInfo, readOk)
         outputFileName == basename(config.output)
         afterName == PushIfAbsent(afterSystem, outputFileName)
         outputPathRelativeToCwd == ReplaceBackslashes(config.output)
         afterPath == IF outputPathRelativeToCwd # outputFileName
                      THEN PushIfAbsent(afterName, outputPathRelativeToCwd)
                      ELSE afterName
     IN IF PreambleReadFatal(systemFileInfo, readOk)
        THEN /\ exitCode' = "exit1"
             /\ pc' = "done"
             /\ UNCHANGED <<systemFilePreamble, config, scanStack, filesList, readdirCalls>>
        ELSE /\ systemFilePreamble' =
                  IF readOk
                  THEN SYSTEM_PREFIX \o trim(Expand(ContentOf(systemFileInfo[1].fullPath)))
                         \o <<CH_NEWLINE, CH_NEWLINE>>
                  ELSE <<>>
             /\ config' = [config EXCEPT !.ignore = afterPath]
             /\ StartScan
             /\ pc' = "scan"
             /\ UNCHANGED exitCode
  /\ UNCHANGED <<anchorVars, sep, fs, content, unreadable, igArgs, igResult, filesToProcess,
                 foundSystemFiles, systemFileInfo, tasksPending, processedFileResults,
                 outOfOrder, finalMarkdown, writeCalls, outputFile, successReported>>

\* filesToProcess.map(fileInfo => processFileContent(fileInfo, config))
MainStartProcessing ==
  /\ pc = "scanned"
  /\ tasksPending' = 1..Len(filesToProcess)
  /\ processedFileResults' = [i \in 1..Len(filesToProcess) |-> [status |-> "pending"]]
  /\ pc' = "processing"
  /\ UNCHANGED <<anchorVars, sep, fs, content, unreadable, config, igArgs, igResult, scanStack, filesList,
                 readdirCalls, filesToProcess, foundSystemFiles, systemFileInfo, systemFilePreamble,
                 outOfOrder, finalMarkdown, readCalls, writeCalls, outputFile, successReported,
                 exitCode>>

\* (mutant) results are collected in the order the tasks complete
SettleTask_CompletionOrder(results, i, r) ==
  [results EXCEPT ![CHOOSE k \in 1..Len(results) :
                      /\ results[k].status = "pending"
                      /\ \A j \in 1..(k - 1) : results[j].status # "pending"] = r]

\* Promise.all keeps the result of a task at the index of the task
SettleTask(results, i, r) == [results EXCEPT ![i] = r]

\* one of the started tasks completes
ProcessFile(i) ==
  /\ pc = "processing"
  /\ i \in tasksPending
  /\ processedFileResults' =
       SettleTask(processedFileResults, i,
                  processFileContent(fs, unreadable, filesToProcess[i], config))
  /\ tasksPending' = tasksPending \ {i}
  /\ outOfOrder' = (outOfOrder \/ \E j \in tasksPending : j < i)
  /\ readCalls' = readCalls \cup
       {[by |-> i, path |-> p] : p \in FilesReadBy(fs, unreadable, filesToProcess[i], config)}
  /\ UNCHANGED <<anchorVars, sep, fs, content, unreadable, config, pc, igArgs, igResult, scanStack, filesList,
                 readdirCalls, filesToProcess, foundSystemFiles, systemFileInfo, systemFilePreamble,
                 finalMarkdown, writeCalls, outputFile, successReported, exitCode>>

\* the constant lines of mdHeader, from "# Project Files" to
\* "## Table of Contents"
TitleBlock == [kind |-> "title", text |-> <<>>]

\* one line of the table of contents, "- [path](#anchor)"
TocLine(path) == [kind |-> "toc", text |-> path, anchor |-> pathToAnchor(path)]

\* processedFileResults.map(file => `- [${file.path}](#${pathToAnchor(file.path)})`)
TableOfContents(results) == [i \in 1..Len(results) |-> TocLine(results[i].value.path)]

\* mdHeader: the title lines, then the lines of the table of contents
Header(results) == <<TitleBlock>> \o TableOfContents(results)

\* processedFileResults.map(file => file.markdown).join('')
RECURSIVE Body(_)
Body(results) ==
  IF results = <<>> THEN <<>> ELSE Head(results).value.markdown \o Body(Tail(results))

\* the preamble as a piece of the document: nothing when the string is empty
PreambleBlock(preamble) ==
  IF preamble = <<>> THEN <<>> ELSE <<[kind |-> "preamble", text |-> preamble]>>

\* (mutant) the header is put before the preamble
Concatenate_HeaderFirst(preamble, mdHeader, mdBody) ==
  mdHeader \o PreambleBlock(preamble) \o mdBody

\* systemFilePreamble + mdHeader + mdBody
Concatenate(preamble, mdHeader, mdBody) == PreambleBlock(preamble) \o mdHeader \o mdBody

\* Promise.all settles: with a rejection the run ends in the catch block,
\* otherwise the document is put together
MainAssemble ==
  /\ pc = "processing"
  /\ IF \E i \in 1..Len(processedFileResults) : processedFileResults[i].status = "rejected"
     THEN /\ exitCode' = "exit1"
          /\ pc' = "done"
          /\ UNCHANGED finalMarkdown
     ELSE /\ tasksPending = {}
          /\ finalMarkdown' = <<Concatenate(systemFilePreamble,
                                             Header(processedFileResults),
                                             Body(processedFileResults))>>
          /\ pc' = "writing"
          /\ UNCHANGED exitCode
  /\ UNCHANGED <<anchorVars, sep, fs, content, unreadable, config, igArgs, igResult, scanStack, filesList,
                 readdirCalls, filesToProcess, foundSystemFiles, systemFileInfo, systemFilePreamble,
                 tasksPending, processedFileResults, outOfOrder, readCalls, writeCalls, outputFile,
                 successReported>>

\* (mutant) a failed write is not noticed
WriteOutcome_FailureUnnoticed(written) ==
  /\ outputFile' = IF written THEN finalMarkdown ELSE outputFile
  /\ pc' = "written"
  /\ UNCHANGED exitCode

\* (mutant) a failed write is tried again
WriteOutcome_Retried(written) ==
  IF written
  THEN /\ outputFile' = finalMarkdown
       /\ pc' = "written"
       /\ UNCHANGED exitCode
  ELSE /\ pc' = "writing"
       /\ UNCHANGED <<outputFile, exitCode>>

\* what follows await writeFile(...): the next statement when the file
\* was written, the catch block with process.exit(1) when writeFile threw
WriteOutcome(written) ==
  IF written
  THEN /\ outputFile' = finalMarkdown
       /\ pc' = "written"
       /\ UNCHANGED exitCode
  ELSE /\ exitCode' = "exit1"
       /\ pc' = "done"
       /\ UNCHANGED outputFile

\* await writeFile(path.resolve(currentWorkingDirectory, config.output), finalMarkdown)
MainWriteDone ==
  /\ pc = "writing"
  /\ \E written \in BOOLEAN : WriteOutcome(written)
  /\ writeCalls' = writeCalls + 1
  /\ UNCHANGED <<anchorVars, sep, fs, content, unreadable, config, igArgs, igResult,
                 scanStack, filesList, readdirCalls, filesToProcess, foundSystemFiles, systemFileInfo,
                 systemFilePreamble, tasksPending, processedFileResults, outOfOrder,
                 finalMarkdown, readCalls, successReported>>

\* console.log(`Successfully wrote ...`), and main returns
MainReportSuccess ==
  /\ pc = "written"
  /\ successReported' = TRUE
  /\ exitCode' = "exit0"
  /\ pc' = "done"
  /\ UNCHANGED <<anchorVars, sep, fs, content, unreadable, config, igArgs, igResult,
                 scanStack, filesList, readdirCalls, filesToProcess, foundSystemFiles, systemFileInfo,
                 systemFilePreamble, tasksPending, processedFileResults, outOfOrder,
                 finalMarkdown, readCalls, writeCalls, outputFile>>

Next ==
  \/ MainFindSystemFile
  \/ MainPreamble
  \/ ScanEnterDirectory
  \/ ScanEntry
  \/ MainStartProcessing
  \/ \E i \in tasksPending : ProcessFile(i)
  \/ MainAssemble
  \/ MainWriteDone
  \/ MainReportSuccess

Spec == Init /\ [][Next]_vars

\* the runs in scan roots that hold preamble candidates at several depths,
\* readable or not, beside other files
PreambleLeaves ==
  { File(<<"SYSTEM.txt">>), File(<<"docs", "SYSTEM.txt">>), File(<<"Lib", "SYSTEM.txt">>),
    File(<<"a.txt">>), File(<<"docs", "Lib", "a.txt">>) }

PreambleTrees ==
  {Tree(leaves) : leaves \in {l \in SUBSET PreambleLeaves : Cardinality(l) <= MaxFiles}}

InitPreamble ==
  /\ \E pf \in MainPlatforms : sep = pf.sep /\ config = pf.config
  /\ fs \in PreambleTrees
  /\ content = DefaultContent(fs)
  /\ unreadable \in {u \in SUBSET FilesOf(fs) : Cardinality(u) <= MaxUnreadable}
  /\ pc = "start"
  /\ igArgs = "none"
  /\ igResult = "none"
  /\ AnchorIdle
  /\ Idle

\* main is one chain of awaited calls, and each call it waits for settles:
\* a run that has not ended takes a step. This is weak fairness of Next,
\* written with pc = "done", the states in which no step of Next is
\* possible, in the place of the states in which Next is not enabled.
SpecFair == InitPreamble /\ [][Next]_vars /\ ([]<><<Next>>_vars \/ <>[](pc = "done"))

\* runs with an output path given on the command line, in scan roots that
\* hold the output of an earlier run and files whose names differ in one
\* character that is no letter or digit
OutputLeaves ==
  { File(<<"output.md">>), File(<<" output.md">>), File(<<"docs", "output.md">>),
    File(<<"a.txt">>), File(<<"a b.txt">>), File(<<"a-b.txt">>) }

OutputTrees ==
  {Tree(leaves) : leaves \in {l \in SUBSET OutputLeaves : Cardinality(l) <= MaxFiles}}

\* cliArgs.output
OutputPaths == {OUTPUT_MD, N_output_sp, N_docs \o <<CH_SLASH>> \o OUTPUT_MD}

InitOutput ==
  /\ sep = CH_SLASH
  /\ fs \in OutputTrees
  /\ \E out \in OutputPaths :
       config = [Config(DEFAULT_IGNORE, NoExtensionRules) EXCEPT !.output = out]
  /\ content = DefaultContent(fs)
  /\ unreadable \in {u \in SUBSET FilesOf(fs) : Cardinality(u) <= MaxUnreadable}
  /\ pc = "start"
  /\ igArgs = "none"
  /\ igResult = "none"
  /\ AnchorIdle
  /\ Idle

SpecOutput == InitOutput /\ [][Next]_vars

----------------------------------------------------------------------------
(* The run of main.js on trees of one or two files whose text varies:      *)
(* backticks at the two ends, a length around MAX_CONTENT_LENGTH, metadata *)
(* files that are empty or blank; and on the tree of the README's example. *)

MaxBackticks == 5
MaxMargin == 3

\* the texts of a main file: backticks, then the letter a, then backticks
MainTexts ==
  {Merge(<<RunOf(CH_BACKTICK, k), RunOf(CH_a, n), RunOf(CH_BACKTICK, j)>>) :
     k \in 0..MaxBackticks,
     n \in {0, 1} \cup {MAX_CONTENT_LENGTH + d : d \in (0 - 2 * MaxMargin)..MaxMargin},
     j \in {0, 3}}

\* the texts of a metadata file: empty, white space only, a note
MetadataTexts == {<<>>, Text(<<32, 32, CH_NEWLINE>>), Text(<<32, 110, 111, 116, 101, 32, CH_NEWLINE>>)}

ScenarioTree ==
  Tree({File(<<"a.txt">>), File(<<".git", "config">>), File(<<"img.png">>)})

ScenarioConfig ==
  Config(DEFAULT_IGNORE, [ignoreExtensions |-> <<E_png>>, includeExtensions |-> <<>>])

ContentTrees ==
  { Tree({File(<<"a.txt">>)}),
    Tree({File(<<"a.txt">>), File(<<"a.txt.meta.txt">>)}),
    Tree({File(<<"img.PNG">>), File(<<"img.PNG.meta.txt">>)}) }

IsMetadataName(p) ==
  LET name == Name(p)
  IN /\ Len(name) > Len(META_TXT)
     /\ SubSeq(name, Len(name) - Len(META_TXT) + 1, Len(name)) = META_TXT

InitContent ==
  /\ sep = CH_SLASH
  /\ \/ /\ fs \in ContentTrees
        /\ config = Config(DEFAULT_IGNORE, NoExtensionRules)
        /\ \E main \in MainTexts, meta \in MetadataTexts :
             content = [p \in FilesOf(fs) |->
                          IF IsMetadataName(p) THEN meta
                          ELSE IF p = <<"a.txt">> THEN main
                          ELSE DefaultContent(fs)[p]]
        /\ unreadable \in {u \in SUBSET FilesOf(fs) : Cardinality(u) <= MaxUnreadable}
     \/ /\ fs = ScenarioTree
        /\ config = ScenarioConfig
        /\ content = [DefaultContent(fs) EXCEPT ![<<"a.txt">>] = Text(HELLO)]
        /\ unreadable = {}
  /\ pc = "start"
  /\ igArgs = "none"
  /\ igResult = "none"
  /\ AnchorIdle
  /\ Idle

SpecContent == InitContent /\ [][Next]_vars

----------------------------------------------------------------------------
(* The run of main.js on trees that hold SYSTEM.txt files only, beneath    *)
(* directories whose name or path the ignore list can hold                 *)

SearchLeaves ==
  { File(<<"SYSTEM.txt">>), File(<<"docs", "SYSTEM.txt">>),
    File(<<"docs", "Lib", "SYSTEM.txt">>), File(<<"Lib", "SYSTEM.txt">>),
    File(<<".git", "SYSTEM.txt">>), File(<<" docs", "SYSTEM.txt">>) }

SearchTrees ==
  {Tree(leaves) : leaves \in {l \in SUBSET SearchLeaves : Cardinality(l) <= MaxFiles}}

SearchIgnoreLists ==
  { DEFAULT_IGNORE, <<N_docs_Lib>>, <<N_Lib>>, <<N_docs_sp>>, <<N_docs>> }

InitSearch ==
  /\ sep = CH_SLASH
  /\ fs \in SearchTrees
  /\ \E ig \in SearchIgnoreLists : config = Config(ig, NoExtensionRules)
  /\ content = DefaultContent(fs)
  /\ unreadable \in {u \in SUBSET (DirsOf(fs) \ {Root}) : Cardinality(u) <= MaxUnreadable}
  /\ pc = "start"
  /\ igArgs = "none"
  /\ igResult = "none"
  /\ AnchorIdle
  /\ Idle

SpecSearch == InitSearch /\ [][Next]_vars

----------------------------------------------------------------------------
(* Notions the properties are stated with *)

Range(seq) == {seq[i] : i \in 1..Len(seq)}

\* the relative path of a node, with forward slashes
SlashPath(p) == PathWith(p, CH_SLASH)

\* the lower-cased extension of a path, without the dot
LowerExtension(path) == toLowerCase(substring(extname(path), 1))

\* an ignore entry as the ignore check reads it / as it is written
NormalizedEntries(cfg) ==
  [i \in 1..Len(cfg.ignore) |-> trim(ReplaceBackslashes(cfg.ignore[i]))]
SlashedEntries(cfg) ==
  [i \in 1..Len(cfg.ignore) |-> ReplaceBackslashes(cfg.ignore[i])]

\* the base name or the whole slash-normalized path is one of the entries
NameOrPathIn(path, entries) ==
  \E i \in 1..Len(entries) :
     basename(ReplaceBackslashes(path)) = entries[i] \/ ReplaceBackslashes(path) = entries[i]

\* the ordered rules 1 to 5 of the ignore engine, over a list of entries
OrderedRules(path, isDirectory, cfg, entries) ==
  IF NameOrPathIn(path, entries) THEN TRUE
  ELSE IF isDirectory THEN FALSE
  ELSE IF Includes(cfg.ignoreExtensions, LowerExtension(ReplaceBackslashes(path))) THEN TRUE
  ELSE IF cfg.includeExtensions # <<>>
          /\ ~Includes(cfg.includeExtensions, LowerExtension(ReplaceBackslashes(path)))
       THEN TRUE
  ELSE FALSE

\* a directory that an ignore entry excludes, or that lies beneath one
DirExcluded(d) == NameOrPathIn(SlashPath(d), NormalizedEntries(config))
Pruned(d) == \E a \in Ancestors(d) \cup {d} : DirExcluded(a)

\* the files that pass the ignore check themselves and at every directory
\* above them
IncludedFiles ==
  {p \in FilesOf(fs) :
     /\ ~shouldIgnore(RelativePath(p), FALSE, config)
     /\ \A d \in Ancestors(p) : ~shouldIgnore(RelativePath(d), TRUE, config)}

----------------------------------------------------------------------------
(* Properties of the ignore engine and of the walker *)

\* C1: when every directory can be listed, scanProjectFiles returns exactly
\* the regular files for which shouldIgnore is false on the file and on every
\* directory above it below the root, each once.
C1_WalkerReturnsIncludedFiles ==
  (pc = "scanned" /\ unreadable = {}) =>
     /\ Len(filesToProcess) = Cardinality(IncludedFiles)
     /\ {f.path : f \in Range(filesToProcess)} = {SlashPath(p) : p \in IncludedFiles}

\* C1 witness: a walk has returned files while leaving out a file that passes
\* the check itself but lies in an ignored directory.
C1_Witness ==
  /\ pc = "scanned" /\ unreadable = {}
  /\ filesToProcess # <<>>
  /\ \E p \in FilesOf(fs) \ IncludedFiles : ~shouldIgnore(RelativePath(p), FALSE, config)

\* C2: readdir is never called on a directory that an ignore entry excludes
\* (by base name or by full relative path) nor on a directory beneath it, and
\* no file beneath it is collected.
C2_ExcludedDirectoryNeverTraversed ==
  /\ \A d \in DirsOf(fs) \ {Root} : Pruned(d) => d \notin readdirCalls
  /\ \A f \in Range(filesList) \cup Range(filesToProcess) :
        ~Pruned(Parent(f.fullPath)) \/ Parent(f.fullPath) = Root

\* C2 witness: the walk is over, a directory excluded by its full relative
\* path (not by its name) holds a file that passes the rules by itself, and
\* the directory above it was listed.
C2_Witness ==
  /\ pc = "scanned"
  /\ \E p \in FilesOf(fs) :
       /\ Len(p) > 1
       /\ ~shouldIgnore(RelativePath(p), FALSE, config)
       /\ DirExcluded(Parent(p))
       /\ ~\E i \in 1..Len(config.ignore) : NormalizedEntries(config)[i] = Name(Parent(p))
       /\ Parent(Parent(p)) \in readdirCalls
       /\ Parent(p) \notin readdirCalls

\* C3 as stated: shouldIgnore returns the result of the ordered rules with
\* the base name and the path compared with the ignore entries as written.
C3_OrderedRulesEntriesAsWritten ==
  pc = "returned" =>
     igResult = OrderedRules(igArgs.relativeItemPath, igArgs.isDirectory, config,
                             SlashedEntries(config))

\* C3 amended: shouldIgnore returns the result of the ordered rules, the base
\* name and the path being compared with each ignore entry after its white
\* space at both ends is removed.
C3_OrderedRulesEntriesTrimmed ==
  pc = "returned" =>
     igResult = OrderedRules(igArgs.relativeItemPath, igArgs.isDirectory, config,
                             NormalizedEntries(config))

\* C3 witness: a directory was excluded by an entry that equals its name
\* only once the entry is trimmed.
C3_Witness ==
  /\ pc = "returned"
  /\ igArgs.isDirectory
  /\ igResult = TRUE
  /\ ~NameOrPathIn(igArgs.relativeItemPath, SlashedEntries(config))

\* C4: a collected file matches no ignore entry, has no extension listed in
\* ignoreExtensions, and, when includeExtensions is not empty, has an
\* extension listed there.
C4_OutputRespectsExtensionRules ==
  \A f \in Range(filesList) \cup Range(filesToProcess) :
     /\ config.includeExtensions # <<>> =>
          Includes(config.includeExtensions, LowerExtension(f.path))
     /\ ~Includes(config.ignoreExtensions, LowerExtension(f.path))
     /\ ~NameOrPathIn(f.path, NormalizedEntries(config))

\* C4 witness: with a non-empty includeExtensions the walk returned a file
\* and left out a file that only the whitelist excludes.
C4_Witness ==
  /\ pc = "scanned"
  /\ config.includeExtensions # <<>>
  /\ filesToProcess # <<>>
  /\ \E p \in FilesOf(fs) :
       /\ ~Includes(config.includeExtensions, LowerExtension(SlashPath(p)))
       /\ ~Includes(config.ignoreExtensions, LowerExtension(SlashPath(p)))
       /\ ~NameOrPathIn(SlashPath(p), NormalizedEntries(config))
       /\ \A d \in Ancestors(p) : ~DirExcluded(d)

\* C5: the returned list is in ascending ordinal order of the relative paths.
C5_SortedOrdinally ==
  pc = "scanned" =>
     \A i \in 1..(Len(filesToProcess) - 1) :
        OrdinalCompare(filesToProcess[i].path, filesToProcess[i + 1].path) < 0

----------------------------------------------------------------------------
(* The output document *)

Built == finalMarkdown # <<>>

IsHeading(block) == block.kind = "heading"
IsTocLine(block) == block.kind = "toc"
IsSectionBlock(block) == block.kind \notin {"preamble", "title", "toc"}

\* the paths of the table of contents, in the order of its lines
TocPaths ==
  LET lines == SelectSeq(finalMarkdown[1], IsTocLine)
  IN [i \in 1..Len(lines) |-> lines[i].text]

\* the blocks of the sections, in the order of the document
SectionBlocks == SelectSeq(finalMarkdown[1], IsSectionBlock)

\* the paths of the section headings, in the order of the sections
HeadingPaths ==
  LET headings == SelectSeq(finalMarkdown[1], IsHeading)
  IN [i \in 1..Len(headings) |-> headings[i].text]

\* the paths of the files the walker returned, in the order it returned them
WalkerPaths == [i \in 1..Len(filesToProcess) |-> filesToProcess[i].path]

\* the path a file of the tree has in the document
DocumentPath(p) == ReplaceBackslashes(RelativePath(p))

\* the files of the tree named as another file of the same directory plus
\* the metadata suffix
Sidecars ==
  {n \in FilesOf(fs) :
     \E m \in FilesOf(fs) : /\ Len(m) = Len(n)
                            /\ Parent(m) = Parent(n)
                            /\ Name(n) = Name(m) \o config.metadataSuffix}

\* C6: a file named as a neighbouring file plus the metadata suffix has no
\* entry of its own in the table of contents and no section of its own in
\* the document.
C6_SidecarHasNoOwnEntry ==
  Built => \A n \in Sidecars : /\ DocumentPath(n) \notin Range(TocPaths)
                               /\ DocumentPath(n) \notin Range(HeadingPaths)

\* the files the preamble search found, as a set (the rule set is still the
\* loaded one while pc = "preamble")
SystemCandidates ==
  {SystemFile(p) : p \in Range(CHOOSE l \in FoundSystemFiles(fs, unreadable, config, Root) : TRUE)}

\* a is the candidate to select: no candidate has fewer segments, and none
\* of the same number of segments is smaller in code-unit order
OrdinalFirst(a, candidates) ==
  \A b \in candidates :
     \/ SplitLength(a.relativePath) < SplitLength(b.relativePath)
     \/ /\ SplitLength(a.relativePath) = SplitLength(b.relativePath)
        /\ OrdinalCompare(a.relativePath, b.relativePath) <= 0

\* C7: findSystemFile returns null when the search found nothing, and
\* otherwise the candidate of fewest segments, the smallest in ordinal
\* comparison among those of equal depth.
C7_SelectsShallowestThenOrdinal ==
  pc = "preamble" =>
    IF SystemCandidates = {} THEN systemFileInfo = <<>>
    ELSE /\ systemFileInfo # <<>>
         /\ systemFileInfo[1] \in SystemCandidates
         /\ OrdinalFirst(systemFileInfo[1], SystemCandidates)

\* the main walk has started
WalkStarted == pc \in {"scan", "scanned", "processing", "writing", "done"}

\* C8: once a preamble file is selected, its relative path is in the
\* ignore list when the main walk starts, and the document has no entry or
\* section for it.
C8_SelectedPreambleIgnored ==
  systemFileInfo # <<>> =>
    /\ WalkStarted => IgnoreIncludes(config.ignore, systemFileInfo[1].relativePath)
    /\ Built => /\ systemFileInfo[1].relativePath \notin Range(TocPaths)
                /\ systemFileInfo[1].relativePath \notin Range(HeadingPaths)

\* the number of places of a sequence that hold x
Count(seq, x) == Cardinality({i \in 1..Len(seq) : seq[i] = x})

HasBinaryExtension(path) == toLowerCase(extname(path)) \in COMMON_BINARY_EXTENSIONS

\* C9: a processing task never rejects; its result carries the path of its
\* file and starts with the heading of that path; a file that cannot be
\* read gets a placeholder and no content; the run is never ended by a
\* task, and the document has exactly one entry and one section for every
\* file of the walker.
C9_ProcessFileContentNeverRejects ==
  /\ \A i \in 1..Len(processedFileResults) :
       LET r == processedFileResults[i]
           f == filesToProcess[i]
       IN /\ r.status \in {"pending", "fulfilled"}
          /\ r.status = "fulfilled" =>
               /\ r.value.path = f.path
               /\ r.value.markdown[1] = Heading(f.path)
               /\ ~Readable(fs, unreadable, f.fullPath) =>
                    r.value.markdown = IF HasBinaryExtension(f.path)
                                       THEN <<Heading(f.path),
                                              BinaryNote(toLowerCase(extname(f.path)))>>
                                       ELSE <<Heading(f.path), UnreadableNote>>
  /\ pc = "done" => Built
  /\ Built =>
       /\ Len(TocPaths) = Len(filesToProcess)
       /\ Len(HeadingPaths) = Len(filesToProcess)
       /\ \A i \in 1..Len(filesToProcess) :
            /\ Count(TocPaths, filesToProcess[i].path) = 1
            /\ Count(HeadingPaths, filesToProcess[i].path) = 1

\* a document was built from a run in which a file could not be read and
\* got the placeholder
C9_Witness ==
  /\ Built
  /\ \E i \in 1..Len(filesToProcess) :
       /\ filesToProcess[i].fullPath \in unreadable
       /\ processedFileResults[i].value.markdown = <<Heading(filesToProcess[i].path), UnreadableNote>>
       /\ filesToProcess[i].path \in Range(TocPaths)

\* C10: whatever the order in which the tasks completed, the entries of
\* the table of contents and the sections of the document are in the order
\* of the list the walker returned, each section being the one of its file.
C10_DocumentInWalkerOrder ==
  Built =>
    /\ TocPaths = WalkerPaths
    /\ HeadingPaths = WalkerPaths
    /\ SectionBlocks =
         Body([i \in 1..Len(filesToProcess) |->
                 processFileContent(fs, unreadable, filesToProcess[i], config)])

\* a document was built after a task completed before one of lower index
C10_Witness == Built /\ outOfOrder /\ Len(filesToProcess) >= 2

\* C11: the document is, in this order, the preamble when there is one, the
\* title lines, the lines of the table of contents, and the blocks of the
\* sections; the table of contents has one line per section, in the order
\* of the sections, and nothing comes before the preamble.
C11_DocumentInFixedOrder ==
  Built =>
    LET doc == finalMarkdown[1]
        p == IF systemFilePreamble # <<>> THEN 1 ELSE 0
        n == Len(TocPaths)
    IN /\ Len(doc) >= p + 1 + n
       /\ p = 1 => doc[1] = [kind |-> "preamble", text |-> systemFilePreamble]
       /\ doc[p + 1] = TitleBlock
       /\ \A i \in 1..Len(doc) :
            /\ doc[i].kind = "preamble" => i = 1 /\ p = 1
            /\ doc[i].kind = "title" => i = p + 1
            /\ doc[i].kind = "toc" <=> (p + 1 < i /\ i <= p + 1 + n)
       /\ TocPaths = HeadingPaths

\* a document with a preamble and at least two sections was built
C11_Witness == Built /\ systemFilePreamble # <<>> /\ Len(HeadingPaths) >= 2

\* the tasks that have settled
Settled == {i \in 1..Len(processedFileResults) : processedFileResults[i].status = "fulfilled"}

\* the blocks of the section of a settled task
Section(i) == processedFileResults[i].value.markdown

\* the settled tasks whose section ends with the fenced content of the file
Fenced == {i \in Settled : Section(i)[Len(Section(i))].kind = "code"}

\* the text between the fences of the section of a task of Fenced
FencedText(i) == Section(i)[Len(Section(i))].text

\* the text of the file of a task
FileText(i) == content[filesToProcess[i].fullPath]

TruncationMarker == Text(TRUNCATION_MARKER)

\* C12 (as stated): the length of the file decides: above 200,000
\* characters the fenced text is the first 200,000 characters of the file
\* (with their triple backticks escaped) and the marker, at or below it the
\* whole file and no marker.
C12_CutAtLengthOfFile ==
  \A i \in Fenced :
     IF TextLength(FileText(i)) > MAX_CONTENT_LENGTH
     THEN FencedText(i) =
            TextConcat(EscapeBackticks(TextTake(FileText(i), MAX_CONTENT_LENGTH)),
                       TruncationMarker)
     ELSE FencedText(i) = EscapeBackticks(FileText(i))

HasTripleBacktick(text) == \E k \in 1..Len(text) : text[k].ch = CH_BACKTICK /\ text[k].n >= 3

\* C12 (amended): the length after the escaping of the triple backticks
\* decides: above 200,000 characters the fenced text is the first 200,000
\* characters of the escaped text followed by the marker and nothing more,
\* at or below it the whole escaped text and no marker; for a file without
\* triple backticks that is the file's own text and length.
C12_CutAtLengthOfEscapedText ==
  \A i \in Fenced :
     LET escaped == EscapeBackticks(FileText(i))
     IN /\ IF TextLength(escaped) > MAX_CONTENT_LENGTH
           THEN /\ TextLength(FencedText(i)) = MAX_CONTENT_LENGTH + Len(TRUNCATION_MARKER)
                /\ TextTake(FencedText(i), MAX_CONTENT_LENGTH)
                     = TextTake(escaped, MAX_CONTENT_LENGTH)
                /\ FencedText(i)
                     = TextConcat(TextTake(escaped, MAX_CONTENT_LENGTH), TruncationMarker)
           ELSE FencedText(i) = escaped
        /\ ~HasTripleBacktick(FileText(i)) => escaped = FileText(i)

\* a file of more than 200,000 characters with triple backticks was
\* rendered, cut and marked
C12_Witness ==
  \E i \in Fenced :
     /\ TextLength(FileText(i)) > MAX_CONTENT_LENGTH
     /\ HasTripleBacktick(FileText(i))
     /\ TextLength(FencedText(i)) = MAX_CONTENT_LENGTH + Len(TRUNCATION_MARKER)

\* the settled tasks whose file is not binary and was read
ReadAsText ==
  {i \in Settled : /\ ~HasBinaryExtension(filesToProcess[i].path)
                   /\ Readable(fs, unreadable, filesToProcess[i].fullPath)}

\* the metadata files of the file of a task that exist and can be read
ReadableSidecars(i) ==
  {n.path : n \in {m \in MetadataFiles(fs, filesToProcess[i].fullPath, config.metadataSuffix) :
                     Readable(fs, unreadable, m.path)}}

SectionWithMetadata(i, metadata) ==
  /\ Len(Section(i)) = 3
  /\ Section(i)[1] = Heading(filesToProcess[i].path)
  /\ Section(i)[2] = MetadataBlock(metadata)
  /\ Section(i)[3].kind = "code"

SectionWithoutMetadata(i) ==
  /\ Len(Section(i)) = 2
  /\ Section(i)[1] = Heading(filesToProcess[i].path)
  /\ Section(i)[2].kind = "code"

NoTaskRejected ==
  \A i \in 1..Len(processedFileResults) : processedFileResults[i].status # "rejected"

\* C13 (as stated): a file that was read has the trimmed text of its
\* metadata file in a block between the heading and the fenced content
\* whenever the metadata file exists and can be read, and no such block
\* otherwise; the content is rendered and no task fails either way.
C13_MetadataBlockWhenReadable ==
  /\ NoTaskRejected
  /\ \A i \in ReadAsText :
       IF ReadableSidecars(i) # {}
       THEN \E p \in ReadableSidecars(i) : SectionWithMetadata(i, trim(Expand(content[p])))
       ELSE SectionWithoutMetadata(i)

\* C13 (amended): the block is there whenever the metadata file exists, can
\* be read and is not empty once trimmed; the section has no such block
\* when the metadata file is absent, cannot be read or holds white space
\* only; the content is rendered and no task fails either way.
C13_MetadataBlockWhenNotBlank ==
  /\ NoTaskRejected
  /\ \A i \in ReadAsText :
       LET notBlank == {p \in ReadableSidecars(i) : trim(Expand(content[p])) # <<>>}
       IN IF notBlank # {}
          THEN \E p \in notBlank : SectionWithMetadata(i, trim(Expand(content[p])))
          ELSE SectionWithoutMetadata(i)

\* a file with a readable metadata file was rendered, the trimmed text of
\* the metadata file in a block before the fenced content
C13_Witness ==
  \E i \in ReadAsText :
     /\ ReadableSidecars(i) # {}
     /\ Len(Section(i)) = 3
     /\ Section(i)[2].kind = "metadata"
     /\ Section(i)[2].text # <<>>

\* the directories of a node that must be listed for the walk to reach it
Above(p) == Ancestors(p) \cup {Root}

\* the includable files whose directories can all be listed
ReachableFiles == {p \in IncludedFiles : Above(p) \cap unreadable = {}}

\* the walk has a next step: a call of scanDirectoryRecursive is active,
\* at its start or in its loop
WalkCanStep ==
  /\ scanStack # <<>>
  /\ Top(scanStack).state \in {"enter", "loop"}

\* C14: a directory that cannot be listed contributes no file and does not
\* stop the walk: the walk has a next step until scanProjectFiles returns,
\* also after a readdir has failed, no collected file lies in or beneath
\* such a directory, and the returned list holds every includable file of
\* the directories that can be listed.
C14_UnlistableDirectorySkipped ==
  /\ pc = "scan" => WalkCanStep
  /\ \A f \in Range(filesList) \cup Range(filesToProcess) :
        Above(f.fullPath) \cap unreadable = {}
  /\ pc = "scanned" =>
       /\ Len(filesToProcess) = Cardinality(ReachableFiles)
       /\ {f.path : f \in Range(filesToProcess)} = {SlashPath(p) : p \in ReachableFiles}

\* the walk has returned files after readdir failed on a directory that
\* holds an includable file
C14_Witness ==
  /\ pc = "scanned"
  /\ filesToProcess # <<>>
  /\ \E d \in unreadable \cap readdirCalls :
        \E p \in IncludedFiles : d \in Above(p)

\* C18: the scan root is listed whatever the ignore list says, also when the
\* root directory's own name is an ignore entry, and the walk returns the
\* includable files beneath it.
C18_RootNeverIgnored ==
  /\ (pc = "scan" /\ Len(scanStack) > 1) => Root \in readdirCalls
  /\ pc = "scanned" =>
       /\ Root \in readdirCalls
       /\ {f.path : f \in Range(filesToProcess)} = {SlashPath(p) : p \in ReachableFiles}

\* the walk has returned files from a root whose own name is excluded by an
\* ignore entry
C18_Witness ==
  /\ pc = "scanned"
  /\ NameOrPathIn(ScanRootName, NormalizedEntries(config))
  /\ filesToProcess # <<>>

\* C15: a run whose final write failed ends with exit code 1 and never
\* reports success; success is reported only when the document has been
\* written, and then the file holds exactly the assembled document.
C15_FailedWriteIsFatal ==
  /\ (pc = "done" /\ Built /\ outputFile = <<>>) =>
        (exitCode = "exit1" /\ ~successReported)
  /\ successReported => (Built /\ outputFile = finalMarkdown /\ exitCode = "exit0")
  /\ exitCode = "exit1" => ~successReported

\* the document was assembled, the write failed and the run has ended
C15_Witness ==
  /\ pc = "done"
  /\ Built
  /\ outputFile = <<>>
  /\ exitCode = "exit1"
  /\ Len(processedFileResults) > 0

IsAnchorChar(c) == IsLower(c) \/ IsDigit(c) \/ c = CH_DASH

\* C16: the anchor of a path, which is also the anchor of the path's line
\* in the table of contents, is made of a-z, 0-9 and '-' only, has no two
\* adjacent dashes and neither starts nor ends with a dash; deriving the
\* anchor of an anchor changes nothing.
C16_AnchorWellFormed ==
  pc = "anchored" =>
    /\ TocLine(anchorPath).anchor = anchor
    /\ \A i \in 1..Len(anchor) : IsAnchorChar(anchor[i])
    /\ \A i \in 1..Len(anchor) - 1 : ~(anchor[i] = CH_DASH /\ anchor[i + 1] = CH_DASH)
    /\ Len(anchor) > 0 => (anchor[1] # CH_DASH /\ anchor[Len(anchor)] # CH_DASH)
    /\ pathToAnchor(anchor) = anchor

\* the anchor of a path that starts with a separator, ends with a character
\* outside a-z 0-9 and holds an upper-case letter
C16_Witness ==
  /\ pc = "anchored"
  /\ Len(anchorPath) = MaxPathLen
  /\ anchorPath[1] \in {CH_SLASH, CH_BACKSLASH}
  /\ anchorPath[Len(anchorPath)] \in {CH_BLANK, CH_DOT}
  /\ \E i \in 1..Len(anchorPath) : anchorPath[i] = CH_B
  /\ Len(anchor) > 0
  /\ Len(anchor) < Len(anchorPath)

\* the run of the example: a.txt holding hello, .git/config with .git among
\* the ignore names, img.png with png among the ignored extensions
ScenarioRun ==
  /\ fs = ScenarioTree
  /\ content[<<"a.txt">>] = Text(HELLO)
  /\ IgnoreIncludes(config.ignore, N_git)
  /\ Includes(config.ignoreExtensions, E_png)

\* C17: the document of the example has one line in its table of contents,
\* that of a.txt, and one section, that of a.txt, whose fenced block holds
\* hello.
C17_ScenarioDocument ==
  (ScenarioRun /\ Built) =>
    /\ TocPaths = <<N_a_txt>>
    /\ HeadingPaths = <<N_a_txt>>
    /\ Len(SectionBlocks) = 2
    /\ SectionBlocks[2].kind = "code"
    /\ SectionBlocks[2].text = Text(HELLO)

\* the document of the example has been written
C17_Witness ==
  /\ ScenarioRun
  /\ Built
  /\ outputFile = finalMarkdown
  /\ successReported

\* the settled tasks of the files with an extension of the binary table
BinaryTasks ==
  {i \in Settled : toLowerCase(extname(filesToProcess[i].path)) \in COMMON_BINARY_EXTENSIONS}

\* C19: the section of a file whose lower-cased extension is in the table
\* of binary extensions is its heading and the note naming the extension,
\* and its task has read neither the file nor its metadata file.
C19_BinaryNeverRead ==
  \A i \in BinaryTasks :
    /\ Section(i) = <<Heading(filesToProcess[i].path),
                      BinaryNote(toLowerCase(extname(filesToProcess[i].path)))>>
    /\ \A r \in readCalls : r.by # i

\* a settled binary file that could have been read and has a metadata file
\* that could have been read
C19_Witness ==
  \E i \in BinaryTasks :
    /\ Readable(fs, unreadable, filesToProcess[i].fullPath)
    /\ \E n \in MetadataFiles(fs, filesToProcess[i].fullPath, config.metadataSuffix) :
         Readable(fs, unreadable, n.path)
    /\ extname(filesToProcess[i].path) # toLowerCase(extname(filesToProcess[i].path))

\* (as first stated) C20: the text between the fences has no three
\* backticks in a row.
C20_NoTripleBacktick ==
  \A i \in Fenced : ~HasTripleBacktick(FencedText(i))

\* the run at position k of a text is a run of backticks that a backslash
\* directly precedes
AfterBackslash(text, k) ==
  /\ k > 1
  /\ text[k - 1].ch = CH_BACKSLASH

\* C20: in the text between the fences, also when it was cut, no more than
\* three backticks stand in a row, and three in a row directly follow a
\* backslash: no line of the text begins with three backticks, so the text
\* cannot close the fenced block.
C20_TriplesFollowBackslash ==
  \A i \in Fenced :
    \A k \in 1..Len(FencedText(i)) :
      FencedText(i)[k].ch = CH_BACKTICK =>
        /\ FencedText(i)[k].n <= 3
        /\ FencedText(i)[k].n = 3 => AfterBackslash(FencedText(i), k)

\* a file that starts with five backticks or more and is cut: its fenced
\* text holds three backticks in a row
C20_Witness ==
  \E i \in Fenced :
    /\ FileText(i) # <<>>
    /\ FileText(i)[1].ch = CH_BACKTICK
    /\ FileText(i)[1].n >= 5
    /\ TextLength(FileText(i)) > MAX_CONTENT_LENGTH
    /\ TextLength(FencedText(i)) = MAX_CONTENT_LENGTH + Len(TRUNCATION_MARKER)
    /\ HasTripleBacktick(FencedText(i))

\* the directories the preamble search does not enter, by the entries of
\* the ignore list as they are written / as the search reads them
SearchSkipsAsWritten(d) ==
  Name(d) \in Range(config.ignore) \cup HardcodedSystemSearchIgnores
SearchSkipsTrimmed(d) ==
  Name(d) \in Range(NormalizedEntries(config)) \cup HardcodedSystemSearchIgnores

\* the files named SYSTEM.txt that the search comes to: every directory above
\* them can be listed and none is among the skipped ones
SearchReaches(p, skipped) ==
  /\ Name(p) = SYSTEM_TXT
  /\ \A d \in Ancestors(p) : d \notin unreadable /\ d \notin skipped

\* the files the search has found
FoundPaths == {foundSystemFiles[i].fullPath : i \in 1..Len(foundSystemFiles)}

\* (as first stated) C21: the search skips a directory exactly when its name
\* is an entry of the ignore list or one of the fixed names.
C21_SearchSkipsByNameAsWritten ==
  pc = "preamble" =>
    FoundPaths = {p \in FilesOf(fs) :
                    SearchReaches(p, {d \in DirsOf(fs) \ {Root} : SearchSkipsAsWritten(d)})}

\* C21: the search skips a directory exactly when its name is one of the
\* fixed names or equals an entry of the ignore list, the entry taken with
\* its backslashes replaced by slashes and the white space at its ends
\* removed; the files named SYSTEM.txt it finds are those beneath no skipped
\* directory, so an entry that is the path of a directory and not its name
\* prunes nothing.
C21_SearchSkipsByTrimmedName ==
  pc = "preamble" =>
    FoundPaths = {p \in FilesOf(fs) :
                    SearchReaches(p, {d \in DirsOf(fs) \ {Root} : SearchSkipsTrimmed(d)})}

\* docs/Lib/SYSTEM.txt is found although docs/Lib is an ignore entry
C21_Witness ==
  /\ pc = "preamble"
  /\ IgnoreIncludes(config.ignore, N_docs_Lib)
  /\ <<"docs", "Lib", "SYSTEM.txt">> \in FoundPaths
  /\ ~SearchSkipsTrimmed(<<"docs", "Lib">>)

\* a preamble file was selected and its read fails
PreambleUnreadable ==
  /\ systemFileInfo # <<>>
  /\ systemFileInfo[1].fullPath \in unreadable

\* C22: when the selected preamble file cannot be read the run goes on: the
\* preamble text stays empty, the run ends with exit code 1 only when the
\* final write was called and failed, the document begins with the title
\* block, and the run comes to call the final write.
C22_UnreadablePreambleNotFatal ==
  /\ [](PreambleUnreadable =>
          /\ systemFilePreamble = <<>>
          /\ exitCode = "exit1" => (writeCalls = 1 /\ outputFile = <<>>)
          /\ Built => (finalMarkdown[1][1] = TitleBlock
                       /\ finalMarkdown[1] = Header(processedFileResults)
                                               \o Body(processedFileResults)))
  /\ (PreambleUnreadable ~> (writeCalls = 1 /\ Built /\ pc \in {"written", "done"}))

\* the selected preamble could not be read and the document, which has
\* sections, was written
C22_Witness ==
  /\ PreambleUnreadable
  /\ Len(filesToProcess) > 0
  /\ outputFile = finalMarkdown
  /\ Built
  /\ successReported

\* the element of the walker's list for a file
FileInfo(p) == [path |-> ReplaceBackslashes(RelativePath(p)), fullPath |-> p]

\* the files the walk collects, in one fixed order that does not depend on
\* the walk
CollectedInFixedOrder ==
  LET collected == {FileInfo(p) : p \in ReachableFiles}
  IN CHOOSE f \in Orders(collected) : TRUE

\* C23: the list scanProjectFiles returns is the same for every order in
\* which readdir enumerates the directories: it is the list that sorting
\* gives from one fixed order of the collected files.
C23_ResultIndependentOfReaddirOrder ==
  pc = "scanned" => filesToProcess = SortFiles(CollectedInFixedOrder)

\* (as first stated) C24: no step of the run changes the ruleset.
C24_RulesetNeverChanges == [][config' = config]_vars

\* what main may add to the ignore list: the path of the selected preamble,
\* the base name of the output and its path
MainAdditions ==
  {basename(config.output), ReplaceBackslashes(config.output)}
    \cup (IF systemFileInfo # <<>> THEN {systemFileInfo[1].relativePath} ELSE {})

\* C24: ignoreExtensions, includeExtensions, metadataSuffix and output never
\* change; the ignore list changes in one step only, the handling of the
\* preamble before the main walk, which appends to it entries it does not
\* hold yet: the path of the selected preamble, the base name and the path
\* of the output. The search, the walk, the processing and the assembly
\* leave the ruleset as it is.
C24_RulesetChangesBeforeWalkOnly ==
  [][/\ config'.ignoreExtensions = config.ignoreExtensions
     /\ config'.includeExtensions = config.includeExtensions
     /\ config'.metadataSuffix = config.metadataSuffix
     /\ config'.output = config.output
     /\ config'.ignore # config.ignore =>
          /\ pc = "preamble"
          /\ pc' = "scan"
          /\ Len(config'.ignore) > Len(config.ignore)
          /\ SubSeq(config'.ignore, 1, Len(config.ignore)) = config.ignore
          /\ \A i \in (Len(config.ignore) + 1)..Len(config'.ignore) :
               /\ config'.ignore[i] \in MainAdditions
               /\ ~IgnoreIncludes(config.ignore, config'.ignore[i])]_vars

\* a run that went through every phase, with the preamble's path and the
\* output's name added to a list that held entries before
C24_Witness ==
  /\ pc = "done"
  /\ successReported
  /\ systemFileInfo # <<>>
  /\ Len(filesToProcess) > 0
  /\ Len(config.ignore) >= 4
  /\ IgnoreIncludes(config.ignore, systemFileInfo[1].relativePath)
  /\ IgnoreIncludes(config.ignore, basename(config.output))

\* every task was started and has settled
AllProcessed ==
  /\ Len(processedFileResults) = Len(filesToProcess)
  /\ tasksPending = {}
  /\ \A i \in 1..Len(processedFileResults) : processedFileResults[i].status = "fulfilled"

\* C25: writeFile is called at most once; when it is called the preamble
\* search, the walk and the processing of every file are over and the
\* document is assembled; the output file is empty before the call and holds
\* nothing but the assembled document after it.
C25_SingleFinalWrite ==
  /\ writeCalls <= 1
  /\ writeCalls = 0 => outputFile = <<>>
  /\ outputFile # <<>> => outputFile = finalMarkdown
  /\ (writeCalls = 1 \/ pc = "writing") =>
       /\ pc \in {"writing", "written", "done"}
       /\ scanStack = <<>>
       /\ AllProcessed
       /\ Built

\* the one write has been made, of a document with sections and a preamble
C25_Witness ==
  /\ writeCalls = 1
  /\ outputFile = finalMarkdown
  /\ Built
  /\ systemFileInfo # <<>>
  /\ Len(filesToProcess) >= 2

UpperChar(c) == IF IsLower(c) THEN c - 32 ELSE c

\* the paths that differ from a path in the letter case of the extension
\* only
ExtensionCaseVariants(path) ==
  LET first == Len(path) - Len(extname(path)) + 1
  IN {[i \in 1..Len(path) |->
         IF i < first THEN path[i]
         ELSE IF i \in upper THEN UpperChar(path[i]) ELSE LowerChar(path[i])] :
        upper \in SUBSET (first..Len(path))}

\* the extension rules (3 and 4) exclude a file
ExtensionRulesExclude(path, cfg) ==
  \/ Includes(cfg.ignoreExtensions, LowerExtension(ReplaceBackslashes(path)))
  \/ /\ cfg.includeExtensions # <<>>
     /\ ~Includes(cfg.includeExtensions, LowerExtension(ReplaceBackslashes(path)))

\* an exclusion that only an ignore entry can have made
ExcludedByEntry ==
  /\ pc = "returned"
  /\ igResult = TRUE
  /\ igArgs.isDirectory \/ ~ExtensionRulesExclude(igArgs.relativeItemPath, config)

\* the files that differ in the case of the extension only get one decision,
\* unless an ignore entry matches one of them
SameDecisionForExtensionCase ==
  (pc = "returned" /\ ~igArgs.isDirectory) =>
     \A q \in ExtensionCaseVariants(igArgs.relativeItemPath) :
        (/\ ~NameOrPathIn(igArgs.relativeItemPath, NormalizedEntries(config))
         /\ ~NameOrPathIn(q, NormalizedEntries(config)))
          => shouldIgnore(q, FALSE, config) = igResult

\* (as first stated) C26: files that differ in the case of the extension
\* only get the same decision, and an ignore entry excludes only what equals
\* it, as it is written, in name or in path.
C26_EntriesMatchAsWritten ==
  /\ SameDecisionForExtensionCase
  /\ ExcludedByEntry => NameOrPathIn(igArgs.relativeItemPath, SlashedEntries(config))

\* C26: files that differ in the case of the extension only get the same
\* decision, and an ignore entry excludes only what equals, character for
\* character and with regard to case, the entry without the white space at
\* its ends.
C26_EntriesMatchTrimmedCaseSensitive ==
  /\ SameDecisionForExtensionCase
  /\ ExcludedByEntry => NameOrPathIn(igArgs.relativeItemPath, NormalizedEntries(config))
  /\ (pc = "returned" /\ igArgs.isDirectory
        /\ ~NameOrPathIn(igArgs.relativeItemPath, NormalizedEntries(config)))
       => igResult = FALSE

\* a file with an upper-case extension was excluded by the lower-case
\* extension of ignoreExtensions, no ignore entry matching it
C26_Witness ==
  /\ pc = "returned"
  /\ ~igArgs.isDirectory
  /\ igResult = TRUE
  /\ extname(igArgs.relativeItemPath) # toLowerCase(extname(igArgs.relativeItemPath))
  /\ Includes(config.ignoreExtensions, LowerExtension(igArgs.relativeItemPath))
  /\ ~NameOrPathIn(igArgs.relativeItemPath, NormalizedEntries(config))

\* the ignore list the run was started with
LoadedIgnore ==
  CHOOSE ig \in {pf.config.ignore : pf \in MainPlatforms} :
    /\ Len(ig) <= Len(config.ignore)
    /\ SubSeq(config.ignore, 1, Len(ig)) = ig

\* main has added the path of the selected preamble to the ignore list
PreamblePathPushed ==
  /\ pc \in {"scanned", "processing", "writing", "written", "done"}
  /\ systemFileInfo # <<>>
  /\ ~IgnoreIncludes(LoadedIgnore, systemFileInfo[1].relativePath)
  /\ IgnoreIncludes(config.ignore, systemFileInfo[1].relativePath)

\* the files the walk includes under the ignore list without the entry of
\* the selected preamble
IncludedWithoutPreambleEntry ==
  LET without == [config EXCEPT !.ignore =
                    SelectSeq(config.ignore,
                              LAMBDA e : e # systemFileInfo[1].relativePath)]
  IN {p \in FilesOf(fs) :
        /\ ~shouldIgnore(RelativePath(p), FALSE, without)
        /\ \A d \in Ancestors(p) : ~shouldIgnore(RelativePath(d), TRUE, without)}

\* C27: the entry main adds for the selected preamble removes that file from
\* the result of the walk and no other: the walk returns every file it would
\* return without the entry, the selected preamble excepted.
C27_PreambleEntryRemovesOneFile ==
  PreamblePathPushed =>
    {f.path : f \in Range(filesToProcess)} =
      {SlashPath(p) : p \in IncludedWithoutPreambleEntry}
        \ {ReplaceBackslashes(systemFileInfo[1].relativePath)}

\* the preamble below a directory was selected and its entry, a path, took
\* this one file from the result of the walk
C27_DeepPreambleRemoved ==
  /\ PreamblePathPushed
  /\ Len(systemFileInfo[1].fullPath) > 1
  /\ filesToProcess # <<>>
  /\ systemFileInfo[1].fullPath \in IncludedWithoutPreambleEntry

\* the walk is over
WalkOver == pc \in {"scanned", "processing", "writing", "written", "done"}

\* C28: when the walk starts the ignore list holds the base name of the
\* output path, and the walk returns no file that has this name.
C28_OutputNeverListed ==
  /\ pc = "scan" => IgnoreIncludes(config.ignore, basename(config.output))
  /\ WalkOver =>
       \A f \in Range(filesToProcess) : basename(f.path) # basename(config.output)

\* the output names without white space at their ends: the files of that
\* name, in whatever directory, are left out of the walk
C28_PlainOutputNameExcluded ==
  (WalkOver /\ trim(basename(config.output)) = basename(config.output)) =>
     \A f \in Range(filesToProcess) : basename(f.path) # basename(config.output)

\* a walk is over that returned files and left out the output of an earlier
\* run, at the root or below it
C28_PlainOutputNameWitness ==
  /\ WalkOver
  /\ filesToProcess # <<>>
  /\ trim(basename(config.output)) = basename(config.output)
  /\ \E p \in FilesOf(fs) : Name(p) = basename(config.output) /\ Len(p) > 1

\* C30: in the document of a run, the sections of two different relative
\* paths have different anchors in the table of contents.
C30_AnchorsDistinct ==
  Built =>
    \A i, j \in 1..Len(finalMarkdown[1]) :
       (/\ IsTocLine(finalMarkdown[1][i])
        /\ IsTocLine(finalMarkdown[1][j])
        /\ finalMarkdown[1][i].text # finalMarkdown[1][j].text)
         => finalMarkdown[1][i].anchor # finalMarkdown[1][j].anchor

\* the paths that differ in a letter or a digit of their anchors do get
\* different anchors
C30_DocumentWithDistinctAnchors ==
  /\ Built
  /\ Len(filesToProcess) >= 2
  /\ \A i, j \in 1..Len(filesToProcess) :
       i # j => pathToAnchor(filesToProcess[i].path) # pathToAnchor(filesToProcess[j].path)

\* the walk is about to call readdir on a directory
AboutToList(d) ==
  /\ pc = "scan"
  /\ scanStack # <<>>
  /\ Top(scanStack).state = "enter"
  /\ Top(scanStack).dir = d
  /\ ~DirectoryIgnored(d, config)

\* C29: the walk returns, whatever the tree, the ruleset and the directories
\* that cannot be listed, and it calls readdir on no directory on which it
\* has called it before.
C29_WalkTerminatesListingOnce ==
  /\ [](\A d \in DirsOf(fs) : AboutToList(d) => d \notin readdirCalls)
  /\ <>(pc = "scanned")

\* a walk has returned after listing three directories or more, one of them
\* with a readdir that failed
C29_Witness ==
  /\ pc = "scanned"
  /\ Cardinality(readdirCalls) >= 3
  /\ unreadable \cap readdirCalls # {}

============================================================================
